---- MODULE Spec2Model ----
(***************************************************************************)
(* Return calculation, snapshot summary aggregation and status filtering   *)
(* of the portfolio manager (positions.tsx, snapshots/[id].tsx).           *)
(*                                                                         *)
(* JavaScript numbers are modelled as exact rationals together with the    *)
(* three non-finite values NaN, Infinity and -Infinity; null and undefined *)
(* are values of their own.  Every value is a record [k, n, d] so that any *)
(* two values can be compared.                                             *)
(***************************************************************************)
EXTENDS Integers, Sequences, FiniteSets, TLC

\* ------------------------------------------------------------------ bounds
\* Fetched and override prices are 0 or 100 + 10*k, k in 0..MaxPriceSteps.
MaxPriceSteps == 2
\* dividends_paid amounts are 5*k, k in 0..MaxDividendSteps.
MaxDividendSteps == 1
\* Longest positions list the positions page loads.
MaxPositions == 3
\* Longest list of snapshot positions the detail page loads.
MaxSnapshotPositions == 2
\* Longest list of snapshot positions the detail page exports.
MaxExportPositions == 1
MaxStorePositions == 2
\* The end dates a snapshot form can hold are the days 1..MaxEndDate.
MaxEndDate == 3

VARIABLES
  \* one row put through the return computations of both pages
  row, returnCell, detailCell, exportCell, rowReturn,
  \* snapshot detail page ([id].tsx): positions, positionsLoading and the
  \* summaryStats memo
  snapshotPositions, positionsLoading, summaryStats,
  \* positions page (positions.tsx): positions, loading, statusFilter and
  \* the filteredPositions memo
  positions, loading, statusFilter, filteredPositions,
  \* snapshot detail page: snapshot, and the rows of the document
  \* handleExportToHTML wrote
  snapshot, exported,
  \* the store: the rows of positions, snapshots and snapshot_positions,
  \* and the ids it hands out next
  dbPositions, dbSnapshots, dbSnapshotPositions, nextPositionId, nextSnapshotId,
  \* the snapshots tab: its route, and the list page's snapshots and loading
  route, snapshots, snapshotsLoading, detailLoading,
  \* the detail page's portfolio statistics and their loading flag
  portfolioStats, statsLoading,
  \* the requests the last handler issued and the alert it raised
  requests, alert,
  \* the environment of the build, the AuthProvider's user and loading, the
  \* path of the tab, the allowDemo of the page's ProtectedRoute and its
  \* isAuthorized, and the error of the login page
  env, authUser, authLoading, pathname, allowDemo, isAuthorized, loginError,
  \* the AuthProvider's profile and its pending steps, the requiredRole of
  \* the page's ProtectedRoute, and the path a router.push has asked for
  profile, authCalls, requiredRole, navigation,
  \* the reset-password page: its two inputs, updating, error (resetError)
  \* and success,
  \* and the updateUser request in flight
  password, confirmPassword, updating, resetError, success, updateUser,
  \* the snapshot detail page: the fetchData calls in flight and editForm
  fetchDataCalls, editForm,
  \* the settings page: settings, loading (settingsLoading), saving and
  \* showConfirmDialog, the rows of the settings table, and the rows
  \* handleSaveSettings has still to upsert
  settings, settingsLoading, saving, showConfirmDialog, settingsRows, upserts,
  \* the dialogs: isModalOpen and isAddMode of the page that is mounted (the
  \* positions page or the snapshot list page), editingPosition (editingPos),
  \* editingSnapshot (editingSnap) and isSaving, and isEditModalOpen of the
  \* detail page
  isModalOpen, isAddMode, editingPos, editingSnap, isSaving, isEditModalOpen,
  \* the detail page's isFetchingPrices and isFetchingDividends
  isFetchingPrices, isFetchingDividends

calcVars == <<row, returnCell, detailCell, exportCell, rowReturn>>
detailVars == <<snapshotPositions, positionsLoading, summaryStats>>
pageVars == <<positions, loading, statusFilter, filteredPositions>>
exportVars == <<snapshot, exported>>
\* The variables of the pages and handlers beyond the three groups above.
dbVars == <<dbPositions, dbSnapshots, dbSnapshotPositions, nextPositionId, nextSnapshotId>>
listVars == <<route, snapshots, snapshotsLoading, detailLoading, portfolioStats, statsLoading>>
logVars == <<requests, alert>>
storeVars == <<dbVars, listVars, logVars>>
accessVars == <<env, authUser, authLoading, pathname, allowDemo, isAuthorized, loginError,
                profile, authCalls, requiredRole, navigation>>
\* The groups that follow exportVars.
afterExportVars == <<storeVars, accessVars>>
resetVars == <<password, confirmPassword, updating, resetError, success, updateUser>>
\* The forms of the pages and the calls they have in flight.
raceVars == <<fetchDataCalls, editForm>>
settingsVars == <<settings, settingsLoading, saving, showConfirmDialog, settingsRows, upserts>>
dialogVars == <<isModalOpen, isAddMode, editingPos, editingSnap, isSaving, isEditModalOpen>>
fetchVars == <<isFetchingPrices, isFetchingDividends>>
formVars == <<resetVars, raceVars, settingsVars, dialogVars, fetchVars>>
laterVars == <<exportVars, afterExportVars, formVars>>
vars == <<calcVars, detailVars, pageVars, laterVars>>

\* ------------------------------------------------------- JavaScript values
Null == [k |-> "null", n |-> 0, d |-> 1]
Undefined == [k |-> "undefined", n |-> 0, d |-> 1]
NaN == [k |-> "NaN", n |-> 0, d |-> 1]
PosInfinity == [k |-> "Infinity", n |-> 1, d |-> 1]
NegInfinity == [k |-> "Infinity", n |-> -1, d |-> 1]

Abs(i) == IF i < 0 THEN -i ELSE i

RECURSIVE GCD(_, _)
GCD(a, b) == IF b = 0 THEN a ELSE GCD(b, a % b)

\* The number n/d (d # 0) in lowest terms with a positive denominator.
Num(n, d) ==
  LET s == IF d < 0 THEN -1 ELSE 1
      g == GCD(Abs(n), Abs(d))
  IN  [k |-> "num", n |-> (s * n) \div g, d |-> (s * d) \div g]

Whole(i) == Num(i, 1)

IsFinite(x) == x.k = "num"

\* Sign of a number value that is not NaN: -1, 0 or 1.
Sign(x) == IF x.n < 0 THEN -1 ELSE IF x.n > 0 THEN 1 ELSE 0

\* ToNumber, as applied by Number(x) and by the arithmetic operators:
\* null -> 0, undefined -> NaN, a number -> itself.
ToNumber(x) ==
  CASE x.k = "null" -> Whole(0)
    [] x.k = "undefined" -> NaN
    [] OTHER -> x

\* ToBoolean: null, undefined, NaN and 0 are falsy, every other number truthy.
ToBoolean(x) ==
  CASE x.k = "null" -> FALSE
    [] x.k = "undefined" -> FALSE
    [] x.k = "NaN" -> FALSE
    [] x.k = "num" -> x.n # 0
    [] OTHER -> TRUE

\* a || b
LogicalOr(a, b) == IF ToBoolean(a) THEN a ELSE b

Infinity(sign) == IF sign < 0 THEN NegInfinity ELSE PosInfinity

\* a + b on numbers
Add(a0, b0) ==
  LET a == ToNumber(a0)
      b == ToNumber(b0)
  IN  CASE a.k = "NaN" \/ b.k = "NaN" -> NaN
        [] a.k = "Infinity" /\ b.k = "Infinity" -> IF a.n = b.n THEN a ELSE NaN
        [] a.k = "Infinity" -> a
        [] b.k = "Infinity" -> b
        [] OTHER -> Num(a.n * b.d + b.n * a.d, a.d * b.d)

\* -a
Negate(a) == IF a.k = "NaN" THEN NaN ELSE [a EXCEPT !.n = -a.n]

\* a - b
Sub(a0, b0) == Add(ToNumber(a0), Negate(ToNumber(b0)))

\* a * b
Mul(a0, b0) ==
  LET a == ToNumber(a0)
      b == ToNumber(b0)
  IN  CASE a.k = "NaN" \/ b.k = "NaN" -> NaN
        [] a.k = "Infinity" \/ b.k = "Infinity" ->
             IF Sign(a) * Sign(b) = 0 THEN NaN ELSE Infinity(Sign(a) * Sign(b))
        [] OTHER -> Num(a.n * b.n, a.d * b.d)

\* a / b: a finite number over 0 is +-Infinity, 0 / 0 is NaN.
Div(a0, b0) ==
  LET a == ToNumber(a0)
      b == ToNumber(b0)
  IN  CASE a.k = "NaN" \/ b.k = "NaN" -> NaN
        [] a.k = "Infinity" /\ b.k = "Infinity" -> NaN
        [] a.k = "Infinity" -> Infinity(IF Sign(b) < 0 THEN -Sign(a) ELSE Sign(a))
        [] b.k = "Infinity" -> Whole(0)
        [] b.n = 0 -> IF a.n = 0 THEN NaN ELSE Infinity(Sign(a))
        [] OTHER -> Num(a.n * b.d, a.d * b.n)

\* a < b; every comparison with NaN is false.
LessThan(a0, b0) ==
  LET a == ToNumber(a0)
      b == ToNumber(b0)
  IN  CASE a.k = "NaN" \/ b.k = "NaN" -> FALSE
        [] a.k = "Infinity" /\ b.k = "Infinity" -> a.n < b.n
        [] a.k = "Infinity" -> a.n < 0
        [] b.k = "Infinity" -> b.n > 0
        [] OTHER -> a.n * b.d < b.n * a.d

\* a > b
GreaterThan(a, b) == LessThan(b, a)

\* a >= b
GreaterOrEqual(a0, b0) ==
  LET a == ToNumber(a0)
      b == ToNumber(b0)
  IN  /\ a.k # "NaN"
      /\ b.k # "NaN"
      /\ ~LessThan(a, b)

\* Number.prototype.toFixed(digits): the sign and the integer closest to
\* |x| * 10^digits, ties to the larger one; NaN and Infinity print as such.
ToFixed(x, digits) ==
  IF ~IsFinite(x) THEN [k |-> x.k, neg |-> x.n < 0, units |-> 0]
  ELSE LET scale == 10 ^ digits
           m == Abs(x.n) * scale
       IN  [k |-> "num", neg |-> x.n < 0, units |-> (2 * m + x.d) \div (2 * x.d)]

\* x === 0
StrictEqualsZero(x) == x.k = "num" /\ x.n = 0

\* ---------------------------------------------------------- inputs (rows)
PriceValues == {Whole(0)} \cup {Whole(100 + 10 * i) : i \in 0..MaxPriceSteps}
DividendValues == {Whole(5 * i) : i \in 0..MaxDividendSteps}

\* A nullable numeric column of the store.
NullablePrice == {Null} \cup PriceValues
\* dividends_paid as the page reads it: a number, null, or a missing field.
NullableDividend == {Null, Undefined} \cup DividendValues

\* The fields of a positions / snapshot_positions row the return
\* computations read.
Rows ==
  [start_price : NullablePrice, end_price : NullablePrice,
   start_price_override : NullablePrice, end_price_override : NullablePrice,
   dividends_paid : NullableDividend]

\* ------------------------------------------- rendered text of a return cell
NoFixed == [k |-> "none", neg |-> FALSE, units |-> 0]
\* <div>-</div>
Dash == [dash |-> TRUE, plus |-> FALSE, fixed |-> NoFixed]
\* Nothing rendered yet.
Pending == [dash |-> FALSE, plus |-> FALSE, fixed |-> NoFixed]
\* `${r >= 0 ? '+' : ''}${r.toFixed(digits)}%`
PercentText(r, digits) ==
  [dash |-> FALSE, plus |-> GreaterOrEqual(r, Whole(0)), fixed |-> ToFixed(r, digits)]

\* --------------------------------------------- positions page: calculateReturn
\* override ?? price instead of override || price
ActualPriceNullish(override, price) ==
  IF override.k \in {"null", "undefined"} THEN price ELSE override

\* const actualStart = overrideStart || startPrice (and the same for the end)
actualPrice(override, price) == LogicalOr(override, price)

\* calculateReturn with the guard testing for null only
CalculateReturnNullGuard(startPrice, endPrice, overrideStart, overrideEnd) ==
  LET actualStart == actualPrice(overrideStart, startPrice)
      actualEnd == actualPrice(overrideEnd, endPrice)
  IN  IF actualStart.k \in {"null", "undefined"} \/ actualEnd.k \in {"null", "undefined"}
      THEN Null
      ELSE Mul(Div(Sub(actualEnd, actualStart), actualStart), Whole(100))

\* calculateReturn with the guard testing the start price only
CalculateReturnStartGuard(startPrice, endPrice, overrideStart, overrideEnd) ==
  LET actualStart == actualPrice(overrideStart, startPrice)
      actualEnd == actualPrice(overrideEnd, endPrice)
  IN  IF ~ToBoolean(actualStart) THEN Null
      ELSE Mul(Div(Sub(actualEnd, actualStart), actualStart), Whole(100))

calculateReturn(startPrice, endPrice, overrideStart, overrideEnd) ==
  LET actualStart == actualPrice(overrideStart, startPrice)
      actualEnd == actualPrice(overrideEnd, endPrice)
  IN  IF ~ToBoolean(actualStart) \/ ~ToBoolean(actualEnd) THEN Null
      ELSE Mul(Div(Sub(actualEnd, actualStart), actualStart), Whole(100))

\* The 'return' display column of the positions table.
returnColumnCell(p) ==
  LET returnPct ==
        calculateReturn(p.start_price, p.end_price,
                        p.start_price_override, p.end_price_override)
  IN  IF returnPct = Null THEN [returnPct |-> returnPct, text |-> Dash]
      ELSE [returnPct |-> returnPct, text |-> PercentText(returnPct, 2)]

\* --------------------------------------- snapshot detail: return with dividends
\* The 'return_pct_with_dividends' display column of the detail table.
\* totalReturn is Undefined where the cell never computes it.
returnWithDividendsCell(p) ==
  LET startPrice == p.start_price
      endPrice == p.end_price
      dividends == LogicalOr(ToNumber(p.dividends_paid), Whole(0))
  IN  IF ~ToBoolean(startPrice) \/ ~ToBoolean(endPrice) \/ StrictEqualsZero(startPrice)
      THEN [totalReturn |-> Undefined, text |-> Dash]
      ELSE LET totalReturn ==
                 Mul(Div(Sub(Add(endPrice, dividends), startPrice), startPrice),
                     Whole(100))
           IN  [totalReturn |-> totalReturn, text |-> PercentText(totalReturn, 2)]

\* formatReturn of handleExportToHTML; its field named return is ret here.
formatReturn(startPrice, endPrice, dividends) ==
  IF ~ToBoolean(startPrice) \/ ~ToBoolean(endPrice) \/ StrictEqualsZero(startPrice)
  THEN [ret |-> Whole(0), formatted |-> Dash]
  ELSE LET totalReturn ==
             Mul(Div(Sub(Add(endPrice, dividends), startPrice), startPrice),
                 Whole(100))
       IN  [ret |-> totalReturn, formatted |-> PercentText(totalReturn, 1)]

\* One row of the export: the callback of openPositions.map and
\* closedPositions.map, as far as the return is concerned.
exportRow(pos) ==
  LET dividends == LogicalOr(ToNumber(pos.dividends_paid), Whole(0))
  IN  formatReturn(pos.start_price, pos.end_price, dividends)

\* The callback of positions.map in summaryStats: the calculatedReturn it
\* attaches to the position.
calculatedReturn(p) ==
  LET startPrice == p.start_price
      endPrice == p.end_price
      dividends == LogicalOr(ToNumber(p.dividends_paid), Whole(0))
  IN  IF ~ToBoolean(startPrice) \/ ~ToBoolean(endPrice) \/ StrictEqualsZero(startPrice)
      THEN Whole(0)
      ELSE Mul(Div(Sub(Add(endPrice, dividends), startPrice), startPrice),
               Whole(100))

\* ------------------------------------------------ snapshot detail: summaryStats
\* array.reduce((sum, x) => sum + x, 0) over the first len elements.
RECURSIVE reduceSum(_, _)
reduceSum(values, len) ==
  IF len = 0 THEN Whole(0) ELSE Add(reduceSum(values, len - 1), values[len])

\* summaryStats averaging over the positions that have a return only
SummaryStatsOverAvailable(ps) ==
  IF Len(ps) = 0
  THEN [totalPositions |-> 0, winners |-> 0, losers |-> 0,
        totalDividends |-> Whole(0), averageReturn |-> Whole(0)]
  ELSE LET returns == [i \in 1..Len(ps) |-> calculatedReturn(ps[i])]
           available == {i \in 1..Len(ps) : ToBoolean(ps[i].start_price)
                                            /\ ToBoolean(ps[i].end_price)}
       IN  [totalPositions |-> Len(ps),
            winners |-> Cardinality({i \in 1..Len(ps) : GreaterThan(returns[i], Whole(0))}),
            losers |-> Cardinality({i \in 1..Len(ps) : LessThan(returns[i], Whole(0))}),
            totalDividends |->
              reduceSum([i \in 1..Len(ps) |->
                           LogicalOr(ToNumber(ps[i].dividends_paid), Whole(0))], Len(ps)),
            averageReturn |->
              Div(reduceSum(returns, Len(ps)), Whole(Cardinality(available)))]

\* summaryStats counting a zero return as a winner (>= 0 instead of > 0)
SummaryStatsZeroWins(ps) ==
  IF Len(ps) = 0
  THEN [totalPositions |-> 0, winners |-> 0, losers |-> 0,
        totalDividends |-> Whole(0), averageReturn |-> Whole(0)]
  ELSE LET returns == [i \in 1..Len(ps) |-> calculatedReturn(ps[i])]
       IN  [totalPositions |-> Len(ps),
            winners |->
              Cardinality({i \in 1..Len(ps) : GreaterOrEqual(returns[i], Whole(0))}),
            losers |-> Cardinality({i \in 1..Len(ps) : LessThan(returns[i], Whole(0))}),
            totalDividends |->
              reduceSum([i \in 1..Len(ps) |->
                           LogicalOr(ToNumber(ps[i].dividends_paid), Whole(0))], Len(ps)),
            averageReturn |-> Div(reduceSum(returns, Len(ps)), Whole(Len(ps)))]

\* summaryStats adding up dividends_paid without the `|| 0` default
SummaryStatsRawDividends(ps) ==
  IF Len(ps) = 0
  THEN [totalPositions |-> 0, winners |-> 0, losers |-> 0,
        totalDividends |-> Whole(0), averageReturn |-> Whole(0)]
  ELSE LET returns == [i \in 1..Len(ps) |-> calculatedReturn(ps[i])]
       IN  [totalPositions |-> Len(ps),
            winners |-> Cardinality({i \in 1..Len(ps) : GreaterThan(returns[i], Whole(0))}),
            losers |-> Cardinality({i \in 1..Len(ps) : LessThan(returns[i], Whole(0))}),
            totalDividends |->
              reduceSum([i \in 1..Len(ps) |-> ToNumber(ps[i].dividends_paid)], Len(ps)),
            averageReturn |-> Div(reduceSum(returns, Len(ps)), Whole(Len(ps)))]

\* summaryStats without the early return for an empty list
SummaryStatsNoEmptyGuard(ps) ==
  LET returns == [i \in 1..Len(ps) |-> calculatedReturn(ps[i])]
  IN  [totalPositions |-> Len(ps),
       winners |-> Cardinality({i \in 1..Len(ps) : GreaterThan(returns[i], Whole(0))}),
       losers |-> Cardinality({i \in 1..Len(ps) : LessThan(returns[i], Whole(0))}),
       totalDividends |->
         reduceSum([i \in 1..Len(ps) |->
                      LogicalOr(ToNumber(ps[i].dividends_paid), Whole(0))], Len(ps)),
       averageReturn |-> Div(reduceSum(returns, Len(ps)), Whole(Len(ps)))]

\* The summaryStats memo as a function of the positions state.  The counts
\* are integers; totalDividends and averageReturn are number values.
summaryStatsOf(ps) ==
  IF Len(ps) = 0
  THEN [totalPositions |-> 0, winners |-> 0, losers |-> 0,
        totalDividends |-> Whole(0), averageReturn |-> Whole(0)]
  ELSE LET positionsWithReturns == [i \in 1..Len(ps) |-> calculatedReturn(ps[i])]
       IN  [totalPositions |-> Len(ps),
            winners |->
              Cardinality({i \in 1..Len(ps) :
                             GreaterThan(positionsWithReturns[i], Whole(0))}),
            losers |->
              Cardinality({i \in 1..Len(ps) :
                             LessThan(positionsWithReturns[i], Whole(0))}),
            totalDividends |->
              reduceSum([i \in 1..Len(ps) |->
                           LogicalOr(ToNumber(ps[i].dividends_paid), Whole(0))], Len(ps)),
            averageReturn |->
              Div(reduceSum(positionsWithReturns, Len(ps)), Whole(Len(ps)))]

\* ------------------------------------------ positions page: filteredPositions
\* The callback of positions.filter.
statusMatches(filter, position) ==
  IF filter = "open" THEN position.status = "Open" ELSE position.status = "Closed"

\* A filter that puts each kept element in front of the ones kept before it
RECURSIVE ArrayFilterPrepend(_, _, _)
ArrayFilterPrepend(ps, len, filter) ==
  IF len = 0 THEN <<>>
  ELSE LET kept == ArrayFilterPrepend(ps, len - 1, filter)
       IN  IF statusMatches(filter, ps[len]) THEN <<ps[len]>> \o kept ELSE kept

\* Array.prototype.filter over the first len elements, in order.
RECURSIVE arrayFilter(_, _, _)
arrayFilter(ps, len, filter) ==
  IF len = 0 THEN <<>>
  ELSE LET kept == arrayFilter(ps, len - 1, filter)
       IN  IF statusMatches(filter, ps[len]) THEN Append(kept, ps[len]) ELSE kept

\* filteredPositions comparing the status without regard to case
FilteredPositionsAnyCase(ps, filter) ==
  IF filter = "all" THEN ps
  ELSE SelectSeq(ps, LAMBDA p :
         IF filter = "open" THEN p.status \in {"Open", "open"}
         ELSE p.status \in {"Closed", "closed"})

\* The filteredPositions memo as a function of positions and statusFilter.
filteredPositionsOf(ps, filter) ==
  IF filter = "all" THEN ps ELSE arrayFilter(ps, Len(ps), filter)

\* ------------------------------------------------------------------- states
\* Nothing computed yet for the row.
NoReturnCell == [returnPct |-> Undefined, text |-> Pending]
NoDetailCell == [totalReturn |-> Undefined, text |-> Pending]
NoExportCell == [ret |-> Undefined, formatted |-> Pending]

CalcIdle ==
  /\ row = [start_price |-> Null, end_price |-> Null, start_price_override |-> Null,
            end_price_override |-> Null, dividends_paid |-> Null]
  /\ returnCell = NoReturnCell
  /\ detailCell = NoDetailCell
  /\ exportCell = NoExportCell
  /\ rowReturn = Undefined

\* useState([]), useState(true) and the first evaluation of the memo.
DetailInit ==
  /\ snapshotPositions = <<>>
  /\ positionsLoading = TRUE
  /\ summaryStats = summaryStatsOf(<<>>)

\* useState([]), useState(true), useState('all') and the first evaluation
\* of the memo.
PageInit ==
  /\ positions = <<>>
  /\ loading = TRUE
  /\ statusFilter = "all"
  /\ filteredPositions = filteredPositionsOf(<<>>, "all")

\* No snapshot: useState<Snapshot | null>(null).
NoSnapshot == [id |-> 0]
\* No document written yet.
NotExported == [written |-> FALSE, open |-> <<>>, closed |-> <<>>]

ExportInit ==
  /\ snapshot = NoSnapshot
  /\ exported = NotExported

\* No handler has run, no alert is shown.
NoAlert == ""
\* The routes of the snapshots tab.
SnapshotsRoute == [page |-> "/snapshots", id |-> 0]
SnapshotRoute(id) == [page |-> "/snapshots/[id]", id |-> id]

\* useState<any>(null) of portfolioStats.
NoStats == "null"

\* A store that holds the positions ps and no snapshot, the snapshots tab on
\* the list page before its first fetch.
StoreHolds(ps) ==
  /\ dbPositions = ps
  /\ dbSnapshots = {}
  /\ dbSnapshotPositions = {}
  /\ nextPositionId = Cardinality(ps) + 1
  /\ nextSnapshotId = 1
  /\ portfolioStats = NoStats
  /\ statsLoading = FALSE
  /\ route = SnapshotsRoute
  /\ snapshots = <<>>
  /\ snapshotsLoading = TRUE
  /\ detailLoading = TRUE
  /\ requests = <<>>
  /\ alert = NoAlert

\* An empty store.
StoreInit == StoreHolds({})

\* process.env: NEXT_PUBLIC_SUPABASE_URL, NEXT_PUBLIC_SUPABASE_ANON_KEY and
\* NODE_ENV.  An unset variable is undefined, falsy as "" is.
Unset == ""
UrlPlaceholder == "your_supabase_url_here"
KeyPlaceholder == "your_supabase_anon_key_here"
Environments ==
  [url : {Unset, UrlPlaceholder, "https://project.supabase.co", "http://localhost:54321"},
   key : {Unset, KeyPlaceholder, "anon-key"},
   nodeEnv : {"development", "production"}]

\* useState(null) of user and of profile, requiredRole = null, and no
\* router.push under way.
NoUser == "null"
NoProfile == [isNull |-> TRUE, role |-> "undefined"]
NoRole == "null"
NoNavigation == "none"

\* The state of the AuthProvider and of a page's ProtectedRoute when they
\* mount, in the build with environment e.
AccessStarts(e, demoAllowed) ==
  /\ env = e
  /\ authUser = NoUser
  /\ authLoading = TRUE
  /\ pathname = "/positions"
  /\ allowDemo = demoAllowed
  /\ isAuthorized = FALSE
  /\ loginError = ""
  /\ profile = NoProfile
  /\ authCalls = {[await |-> "effect", userId |-> NoUser]}
  /\ requiredRole = NoRole
  /\ navigation = NoNavigation

\* A configured production build on a page with allowDemo.
AccessIdle ==
  AccessStarts([url |-> "https://project.supabase.co", key |-> "anon-key",
                nodeEnv |-> "production"], TRUE)

\* No request in flight.
NoRequest == "none"

\* useState of the reset-password page.
ResetInit ==
  /\ password = ""
  /\ confirmPassword = ""
  /\ updating = FALSE
  /\ resetError = ""
  /\ success = FALSE
  /\ updateUser = NoRequest

\* The detail page's editForm as it mounts (empty fields), and no fetchData
\* running.
RaceInit ==
  /\ fetchDataCalls = {}
  /\ editForm = NoSnapshot

\* A JavaScript value of the settings page: its type and its text.  A
\* boolean has the text true or false, a number its decimal digits.
Str(text) == [type |-> "string", text |-> text]
Bool(b) == [type |-> "boolean", text |-> IF b THEN "true" ELSE "false"]
Number(digits) == [type |-> "number", text |-> digits]

\* useState of settings; of the thirteen fields one of each type is kept:
\* theme (string), show_percentage_returns (boolean), data_retention_days
\* (number).
DefaultSettings ==
  [theme |-> Str("system"), show_percentage_returns |-> Bool(TRUE),
   data_retention_days |-> Number("365")]

\* useState of the settings page, over an empty settings table.
SettingsInit ==
  /\ settings = DefaultSettings
  /\ settingsLoading = TRUE
  /\ saving = FALSE
  /\ showConfirmDialog = FALSE
  /\ settingsRows = {}
  /\ upserts = <<>>

\* useState(null) of editingPosition and of editingSnapshot.
NoPosition == [id |-> 0]

\* useState of the dialogs of the three pages.
DialogsInit ==
  /\ isModalOpen = FALSE
  /\ isAddMode = FALSE
  /\ editingPos = NoPosition
  /\ editingSnap = NoSnapshot
  /\ isSaving = FALSE
  /\ isEditModalOpen = FALSE

\* The forms of the pages as they mount.
FetchInit ==
  /\ isFetchingPrices = FALSE
  /\ isFetchingDividends = FALSE

FormsIdle == ResetInit /\ RaceInit /\ SettingsInit /\ DialogsInit /\ FetchInit

\* The initial values of the variables in laterVars.
LaterInit == ExportInit /\ StoreInit /\ AccessIdle /\ FormsIdle

\* ---------------------------------------- the return computations on one row
InitCalc ==
  /\ row \in Rows
  /\ returnCell = NoReturnCell
  /\ detailCell = NoDetailCell
  /\ exportCell = NoExportCell
  /\ rowReturn = Undefined
  /\ DetailInit
  /\ PageInit
  /\ LaterInit

\* positions page: the table renders the return column of the row.
RenderReturnColumn ==
  /\ returnCell' = returnColumnCell(row)
  /\ UNCHANGED <<row, detailCell, exportCell, rowReturn, detailVars, pageVars, laterVars>>

\* snapshot detail page: the table renders return_pct_with_dividends.
RenderReturnWithDividends ==
  /\ detailCell' = returnWithDividendsCell(row)
  /\ UNCHANGED <<row, returnCell, exportCell, rowReturn, detailVars, pageVars, laterVars>>

\* snapshot detail page: handleExportToHTML writes the row.
ExportRow ==
  /\ exportCell' = exportRow(row)
  /\ UNCHANGED <<row, returnCell, detailCell, rowReturn, detailVars, pageVars, laterVars>>

\* snapshot detail page: summaryStats maps the row to its calculatedReturn.
SummariseRow ==
  /\ rowReturn' = calculatedReturn(row)
  /\ UNCHANGED <<row, returnCell, detailCell, exportCell, detailVars, pageVars, laterVars>>

NextCalc ==
  \/ RenderReturnColumn
  \/ RenderReturnWithDividends
  \/ ExportRow
  \/ SummariseRow

SpecCalc == InitCalc /\ [][NextCalc]_vars

\* -------------------------------------------- snapshot detail page: positions
\* The rows the snapshot_positions_with_status view can hand to the page.
SnapshotRows ==
  [start_price : {Null, Whole(0), Whole(100)},
   end_price : {Null, Whole(0), Whole(95), Whole(110)},
   dividends_paid : {Null, Undefined, Whole(5)}]

RECURSIVE SeqsUpTo(_, _)
SeqsUpTo(S, len) ==
  IF len = 0 THEN {<<>>}
  ELSE LET shorter == SeqsUpTo(S, len - 1)
       IN  shorter \cup {Append(q, x) : q \in {t \in shorter : Len(t) = len - 1}, x \in S}

SnapshotPositionLists == SeqsUpTo(SnapshotRows, MaxSnapshotPositions)

InitDetail == CalcIdle /\ DetailInit /\ PageInit /\ LaterInit

\* fetchData, from the read of the view on: setPositions(positionsData || [])
\* and, in finally, setPositionsLoading(false).
FetchDataPositions ==
  /\ positionsLoading
  /\ \E data \in SnapshotPositionLists :
       /\ snapshotPositions' = data
       /\ summaryStats' = summaryStatsOf(data)
  /\ positionsLoading' = FALSE
  /\ UNCHANGED <<calcVars, pageVars, laterVars>>

\* fetchData when a read fails: the early return, then finally.
FetchDataError ==
  /\ positionsLoading
  /\ positionsLoading' = FALSE
  /\ UNCHANGED <<snapshotPositions, summaryStats, calcVars, pageVars, laterVars>>

NextDetail ==
  \/ FetchDataPositions
  \/ FetchDataError

SpecDetail == InitDetail /\ [][NextDetail]_vars

\* ------------------------------------------------------------ positions page
Tickers == {"AAPL", "MSFT"}
\* position_status is a user-defined enum of the store; "open" stands for a
\* label that differs from 'Open' in case only.
Statuses == {"Open", "Closed", "open"}

\* Lists of at most len positions rows; a row's id is its place in the list
\* the store returns.
RECURSIVE PositionLists(_)
PositionLists(len) ==
  IF len = 0 THEN {<<>>}
  ELSE LET shorter == PositionLists(len - 1)
       IN  shorter \cup
           {Append(q, [id |-> len, ticker |-> t, status |-> st]) :
              q \in {u \in shorter : Len(u) = len - 1}, t \in Tickers, st \in Statuses}

InitPage == CalcIdle /\ DetailInit /\ PageInit /\ LaterInit

\* fetchPositions: setPositions(data || []) and, in finally, setLoading(false).
fetchPositions ==
  /\ loading
  /\ \E data \in PositionLists(MaxPositions) :
       /\ positions' = data
       /\ filteredPositions' = filteredPositionsOf(data, statusFilter)
  /\ loading' = FALSE
  /\ UNCHANGED <<statusFilter, calcVars, detailVars, laterVars>>

\* fetchPositions when the store answers with an error.
fetchPositionsError ==
  /\ loading
  /\ loading' = FALSE
  /\ UNCHANGED <<positions, statusFilter, filteredPositions, calcVars, detailVars, laterVars>>

\* onClick={() => setStatusFilter(filter)} of the three filter buttons.
setStatusFilter(filter) ==
  /\ statusFilter' = filter
  /\ filteredPositions' = filteredPositionsOf(positions, filter)
  /\ UNCHANGED <<positions, loading, calcVars, detailVars, laterVars>>

NextPage ==
  \/ fetchPositions
  \/ fetchPositionsError
  \/ \E filter \in {"all", "open", "closed"} : setStatusFilter(filter)

SpecPage == InitPage /\ [][NextPage]_vars

\* ------------------------------------- snapshot detail page: handleExportToHTML
\* A null position_status of the view.
NoStatus == "(null)"

\* The rows the export is checked on: returns on, between and beyond the
\* band limits 0, 15, 30 and 50.
ExportRows ==
  [start_price : {Null, Whole(100), Whole(150)},
   end_price : {Null, Whole(95), Whole(100), Whole(115), Whole(130), Whole(150),
                Whole(180)},
   dividends_paid : {Null, Whole(5)},
   position_status : {"Open", "Closed", NoStatus}]

ExportPositionLists == SeqsUpTo(ExportRows, MaxExportPositions)

\* getReturnClass with each limit counted to the band below it
GetReturnClassInclusiveUpper(returnPct) ==
  IF ~GreaterOrEqual(returnPct, Whole(0)) THEN "negative"
  ELSE IF ~GreaterThan(returnPct, Whole(15)) THEN "low-positive"
  ELSE IF ~GreaterThan(returnPct, Whole(30)) THEN "positive"
  ELSE IF ~GreaterThan(returnPct, Whole(50)) THEN "more-positive"
  ELSE "very-positive"

getReturnClass(returnPct) ==
  IF LessThan(returnPct, Whole(0)) THEN "negative"
  ELSE IF LessThan(returnPct, Whole(15)) THEN "low-positive"
  ELSE IF LessThan(returnPct, Whole(30)) THEN "positive"
  ELSE IF LessThan(returnPct, Whole(50)) THEN "more-positive"
  ELSE "very-positive"

\* positions.filter(p => p.position_status !== 'Closed')
openPositionsOf(ps) == SelectSeq(ps, LAMBDA p : p.position_status # "Closed")
\* positions.filter(p => p.position_status === 'Closed')
closedPositionsOf(ps) == SelectSeq(ps, LAMBDA p : p.position_status = "Closed")

\* A <tr> of the document: the class and the text of its return.
exportTableRow(pos) ==
  LET returnCalc == exportRow(pos)
  IN  [returnClass |-> getReturnClass(returnCalc.ret), formatted |-> returnCalc.formatted]

exportTable(ps) == [i \in 1..Len(ps) |-> exportTableRow(ps[i])]

InitExport == CalcIdle /\ DetailInit /\ PageInit /\ LaterInit

\* fetchData finding the snapshot and its positions.
ExportFetchData ==
  /\ positionsLoading
  /\ snapshot' = [id |-> 1]
  /\ \E data \in ExportPositionLists :
       /\ snapshotPositions' = data
       /\ summaryStats' = summaryStatsOf(data)
  /\ positionsLoading' = FALSE
  /\ UNCHANGED <<exported, calcVars, formVars, pageVars, afterExportVars>>

\* fetchData when the read of the snapshot fails: snapshot stays null.
ExportFetchDataError ==
  /\ positionsLoading
  /\ positionsLoading' = FALSE
  /\ UNCHANGED <<snapshot, exported, snapshotPositions, summaryStats, calcVars, formVars, pageVars, afterExportVars>>

\* handleExportToHTML: nothing without a snapshot or without positions,
\* otherwise the document with the open and the closed table.
handleExportToHTML ==
  /\ ~positionsLoading
  /\ IF snapshot = NoSnapshot \/ Len(snapshotPositions) = 0
     THEN exported' = exported
     ELSE exported' =
            [written |-> TRUE,
             open |-> exportTable(openPositionsOf(snapshotPositions)),
             closed |-> exportTable(closedPositionsOf(snapshotPositions))]
  /\ UNCHANGED <<snapshot, detailVars, calcVars, formVars, pageVars, afterExportVars>>

NextExport ==
  \/ ExportFetchData
  \/ ExportFetchDataError
  \/ handleExportToHTML

SpecExport == InitExport /\ [][NextExport]_vars

\* ------------------------------------------------------ the store and the tabs
\* One browser tab shows the positions page, another the snapshots list or
\* a snapshot's detail page; both work on one store, and the snapshot
\* builder service writes to it when asked.
StorePositionIds == 1..MaxStorePositions
StoreSnapshotIds == {1, 2}

\* The rows of S as a list, the row created last first.
RECURSIVE DescById(_)
DescById(S) ==
  IF S = {} THEN <<>>
  ELSE LET last == CHOOSE x \in S : \A y \in S : y.id <= x.id
       IN  <<last>> \o DescById(S \ {last})

TickerRank(t) == IF t = "AAPL" THEN 1 ELSE 2

\* The rows of S as a list in ascending order of ticker.
RECURSIVE AscByTicker(_)
AscByTicker(S) ==
  IF S = {} THEN <<>>
  ELSE LET first == CHOOSE x \in S : \A y \in S :
                      \/ TickerRank(x.ticker) < TickerRank(y.ticker)
                      \/ TickerRank(x.ticker) = TickerRank(y.ticker) /\ x.id <= y.id
       IN  <<first>> \o AscByTicker(S \ {first})

\* from('snapshot_positions_with_status').select('*').eq('snapshot_id', id)
\* .order('ticker'), on the rows db of snapshot_positions.
snapshotPositionsWithStatus(db, id) ==
  LET found == AscByTicker({r \in db : r.snapshot_id = id})
  IN  [i \in 1..Len(found) |->
         [ticker |-> found[i].ticker, start_price |-> found[i].start_price,
          end_price |-> found[i].end_price, dividends_paid |-> found[i].dividends_paid]]

\* from('snapshots').select('*').order('end_date', { ascending: false }); a
\* snapshot created later ends later.
snapshotsByEndDate(db) == DescById({[id |-> s] : s \in db})

\* The snapshot builder service.
\* POST /snapshots/create: a new snapshot, and one row per current position.
createSnapshotRows(ps, id) ==
  {[id |-> 10 * id + p.id, snapshot_id |-> id, ticker |-> p.ticker,
    start_price |-> Whole(100), end_price |-> Null, dividends_paid |-> Whole(0)] : p \in ps}

\* POST /snapshots/{id}/fetch-prices: the end prices of the snapshot's rows.
fetchPricesRows(db, id) ==
  {IF r.snapshot_id = id THEN [r EXCEPT !.end_price = Whole(110)] ELSE r : r \in db}

\* POST /snapshots/{id}/populate-dividends: the dividends of the snapshot's rows.
populateDividendsRows(db, id) ==
  {IF r.snapshot_id = id THEN [r EXCEPT !.dividends_paid = Whole(5)] ELSE r : r \in db}

\* The outcomes of an HTTP call: a response with ok, a response with a
\* status that is not ok, or no response.
HttpOutcomes == {"ok", "status", "network"}

\* A request of a handler and how it ended.
Request(to, outcome) == [to |-> to, outcome |-> outcome]
StoreOutcome(error) == IF error THEN "error" ELSE "ok"

\* ----------------------------------------------------------- positions tab
\* fetchPositions against the store.
StoreFetchPositions ==
  /\ loading
  /\ alert' = NoAlert
  /\ \E error \in BOOLEAN :
       /\ requests' = <<Request("SELECT positions", StoreOutcome(error))>>
       /\ IF error
          THEN UNCHANGED <<positions, filteredPositions>>
          ELSE LET data == DescById(dbPositions)
               IN  /\ positions' = data
                   /\ filteredPositions' = filteredPositionsOf(data, statusFilter)
  /\ loading' = FALSE
  /\ UNCHANGED <<statusFilter, calcVars, formVars, accessVars, detailVars, exportVars, dbVars, listVars>>

\* handleSavePosition in add mode; the form's status is its default, 'Open'.
handleSavePositionAdd(ticker) ==
  /\ ~loading
  /\ nextPositionId \in StorePositionIds
  /\ alert' = NoAlert
  /\ \E error \in BOOLEAN :
       /\ requests' = <<Request("INSERT positions", StoreOutcome(error))>>
       /\ IF error
          THEN UNCHANGED <<dbPositions, nextPositionId, positions, filteredPositions>>
          ELSE LET data == [id |-> nextPositionId, ticker |-> ticker, status |-> "Open"]
               IN  /\ dbPositions' = dbPositions \cup {data}
                   /\ nextPositionId' = nextPositionId + 1
                   /\ positions' = <<data>> \o positions
                   /\ filteredPositions' =
                        filteredPositionsOf(<<data>> \o positions, statusFilter)
  /\ UNCHANGED <<dbSnapshots, dbSnapshotPositions, nextSnapshotId, listVars, loading,
                 statusFilter, calcVars, formVars, accessVars, detailVars, exportVars>>

\* handleSavePosition in edit mode, which also renames the snapshot rows of
\* the edited position's ticker
HandleSavePositionEditRenamingRows(editingPosition, ticker) ==
  /\ ~loading
  /\ alert' = NoAlert
  /\ \E error \in BOOLEAN :
       /\ requests' = <<Request("UPDATE positions", StoreOutcome(error))>>
       /\ IF error
          THEN UNCHANGED <<dbPositions, dbSnapshotPositions, positions, filteredPositions>>
          ELSE LET updateData(pos) == [pos EXCEPT !.ticker = ticker]
                   data == [i \in 1..Len(positions) |->
                              IF positions[i].id = editingPosition.id
                              THEN updateData(positions[i]) ELSE positions[i]]
               IN  /\ dbPositions' = {IF r.id = editingPosition.id THEN updateData(r) ELSE r :
                                        r \in dbPositions}
                   /\ dbSnapshotPositions' =
                        {IF r.ticker = editingPosition.ticker THEN [r EXCEPT !.ticker = ticker]
                         ELSE r : r \in dbSnapshotPositions}
                   /\ positions' = data
                   /\ filteredPositions' = filteredPositionsOf(data, statusFilter)
  /\ UNCHANGED <<dbSnapshots, nextPositionId, nextSnapshotId, listVars, loading,
                 statusFilter, calcVars, formVars, accessVars, detailVars, exportVars>>

\* handleSavePosition in edit mode.
handleSavePositionEdit(editingPosition, ticker) ==
  /\ ~loading
  /\ alert' = NoAlert
  /\ \E error \in BOOLEAN :
       /\ requests' = <<Request("UPDATE positions", StoreOutcome(error))>>
       /\ IF error
          THEN UNCHANGED <<dbPositions, positions, filteredPositions>>
          ELSE LET updateData(pos) == [pos EXCEPT !.ticker = ticker]
                   data == [i \in 1..Len(positions) |->
                              IF positions[i].id = editingPosition.id
                              THEN updateData(positions[i]) ELSE positions[i]]
               IN  /\ dbPositions' = {IF r.id = editingPosition.id THEN updateData(r) ELSE r :
                                        r \in dbPositions}
                   /\ positions' = data
                   /\ filteredPositions' = filteredPositionsOf(data, statusFilter)
  /\ UNCHANGED <<dbSnapshots, dbSnapshotPositions, nextPositionId, nextSnapshotId, listVars,
                 loading, statusFilter, calcVars, formVars, accessVars, detailVars, exportVars>>

DeletePositionAlert == "Error deleting position. Please try again."

\* delete() of the rows of the ticker in the first snapshot only
DeleteSnapshotPositionsInOneSnapshot(db, position) ==
  {r \in db : ~(r.ticker = position.ticker /\ r.snapshot_id = 1)}

\* delete() of the rows captured from the position itself
DeleteSnapshotPositionsOfPosition(db, position) ==
  {r \in db : r.id % 10 # position.id}

\* from('snapshot_positions').delete().eq('ticker', position.ticker)
deleteSnapshotPositionsEqTicker(db, position) ==
  {r \in db : r.ticker # position.ticker}

\* handleDeletePosition.
handleDeletePosition(position, confirmed) ==
  /\ ~loading
  /\ IF ~confirmed
     THEN /\ requests' = <<>>
          /\ alert' = NoAlert
          /\ UNCHANGED <<dbPositions, dbSnapshotPositions, positions, filteredPositions>>
     ELSE \E snapshotPositionsError \in BOOLEAN :
            IF snapshotPositionsError
            THEN /\ requests' = <<Request("DELETE snapshot_positions", "error")>>
                 /\ alert' = DeletePositionAlert
                 /\ UNCHANGED <<dbPositions, dbSnapshotPositions, positions, filteredPositions>>
            ELSE /\ dbSnapshotPositions' =
                      deleteSnapshotPositionsEqTicker(dbSnapshotPositions, position)
                 /\ \E positionError \in BOOLEAN :
                      /\ requests' = <<Request("DELETE snapshot_positions", "ok"),
                                       Request("DELETE positions", StoreOutcome(positionError))>>
                      /\ IF positionError
                         THEN /\ alert' = DeletePositionAlert
                              /\ UNCHANGED <<dbPositions, positions, filteredPositions>>
                         ELSE LET data == SelectSeq(positions, LAMBDA p : p.id # position.id)
                              IN  /\ alert' = NoAlert
                                  /\ dbPositions' = {r \in dbPositions : r.id # position.id}
                                  /\ positions' = data
                                  /\ filteredPositions' = filteredPositionsOf(data, statusFilter)
  /\ UNCHANGED <<dbSnapshots, nextPositionId, nextSnapshotId, listVars, loading,
                 statusFilter, calcVars, formVars, accessVars, detailVars, exportVars>>

\* What the store of the positions tab sees of the other tab: the snapshot
\* builder creating a snapshot, fetching its prices, populating its dividends.
SnapshotBuilderCreate ==
  /\ nextSnapshotId \in StoreSnapshotIds
  /\ dbSnapshots' = dbSnapshots \cup {nextSnapshotId}
  /\ dbSnapshotPositions' =
       dbSnapshotPositions \cup createSnapshotRows(dbPositions, nextSnapshotId)
  /\ nextSnapshotId' = nextSnapshotId + 1
  /\ UNCHANGED <<dbPositions, nextPositionId, listVars, logVars, calcVars, formVars, accessVars, detailVars,
                 pageVars, exportVars>>

SnapshotBuilderFetchPrices(id) ==
  /\ id \in dbSnapshots
  /\ dbSnapshotPositions' = fetchPricesRows(dbSnapshotPositions, id)
  /\ UNCHANGED <<dbPositions, dbSnapshots, nextPositionId, nextSnapshotId, listVars, logVars,
                 calcVars, formVars, accessVars, detailVars, pageVars, exportVars>>

SnapshotBuilderPopulateDividends(id) ==
  /\ id \in dbSnapshots
  /\ dbSnapshotPositions' = populateDividendsRows(dbSnapshotPositions, id)
  /\ UNCHANGED <<dbPositions, dbSnapshots, nextPositionId, nextSnapshotId, listVars, logVars,
                 calcVars, formVars, accessVars, detailVars, pageVars, exportVars>>

InitPositionsTab == CalcIdle /\ DetailInit /\ PageInit /\ LaterInit

NextPositionsTab ==
  \/ StoreFetchPositions
  \/ \E ticker \in Tickers : handleSavePositionAdd(ticker)
  \/ \E i \in 1..Len(positions), ticker \in Tickers :
       handleSavePositionEdit(positions[i], ticker)
  \/ \E i \in 1..Len(positions), confirmed \in BOOLEAN :
       handleDeletePosition(positions[i], confirmed)
  \/ SnapshotBuilderCreate
  \/ \E id \in StoreSnapshotIds : SnapshotBuilderFetchPrices(id)
  \/ \E id \in StoreSnapshotIds : SnapshotBuilderPopulateDividends(id)

SpecPositionsTab == InitPositionsTab /\ [][NextPositionsTab]_vars

\* ----------------------------------------------------------- snapshots tab
\* The stores the snapshots tab starts on: positions 1..n, of alternating
\* tickers.
StorePositionSets ==
  {{[id |-> i, ticker |-> IF i % 2 = 1 THEN "MSFT" ELSE "AAPL", status |-> "Open"] :
      i \in 1..n} : n \in 0..MaxStorePositions}

\* The state of the detail page when it mounts.
DetailMounts ==
  /\ snapshot' = NoSnapshot
  /\ snapshotPositions' = <<>>
  /\ summaryStats' = summaryStatsOf(<<>>)
  /\ positionsLoading' = TRUE
  /\ detailLoading' = TRUE
  /\ portfolioStats' = NoStats
  /\ statsLoading' = FALSE

\* The state of the list page when it mounts.
ListMounts ==
  /\ snapshots' = <<>>
  /\ snapshotsLoading' = TRUE

\* fetchSnapshots against the store.
StoreFetchSnapshots ==
  /\ route = SnapshotsRoute
  /\ snapshotsLoading
  /\ alert' = NoAlert
  /\ \E error \in BOOLEAN :
       /\ requests' = <<Request("SELECT snapshots", StoreOutcome(error))>>
       /\ snapshots' = IF error THEN snapshots ELSE snapshotsByEndDate(dbSnapshots)
  /\ snapshotsLoading' = FALSE
  /\ UNCHANGED <<route, detailLoading, portfolioStats, statsLoading, dbVars, calcVars, formVars, accessVars,
                 detailVars, pageVars, exportVars>>

\* The snapshots tab goes to /snapshots/{id}: handleViewSnapshot, or the
\* address typed by the user.
OpenSnapshot(id) ==
  /\ route = SnapshotsRoute
  /\ route' = SnapshotRoute(id)
  /\ DetailMounts
  /\ UNCHANGED <<snapshots, snapshotsLoading, exported, dbVars, logVars, calcVars, formVars, accessVars, pageVars>>

\* The Back to Snapshots link of the detail page.
BackToSnapshots ==
  /\ route.page = "/snapshots/[id]"
  /\ ~detailLoading
  /\ route' = SnapshotsRoute
  /\ ListMounts
  /\ UNCHANGED <<detailLoading, portfolioStats, statsLoading, dbVars, logVars, calcVars, formVars, accessVars,
                 detailVars, pageVars, exportVars>>

\* The route after the read of the snapshot failed with code, redirecting
\* whatever the code
RouteAfterAnySnapshotError(code) == SnapshotsRoute

\* if (snapshotError.code === 'PGRST116') router.push('/snapshots')
routeAfterSnapshotError(code) ==
  IF code = "PGRST116" THEN SnapshotsRoute ELSE route

\* The answers of single() on snapshots for id: the row, PGRST116 when the
\* store holds none, or another error.
SingleSnapshotOutcomes(id) ==
  IF id \in dbSnapshots THEN {"ok", "error"} ELSE {"PGRST116", "error"}

\* fetchData against the store.
StoreFetchData ==
  /\ route.page = "/snapshots/[id]"
  /\ detailLoading
  /\ alert' = NoAlert
  /\ \E snapshotOutcome \in SingleSnapshotOutcomes(route.id), positionsError \in BOOLEAN :
       IF snapshotOutcome # "ok"
       THEN /\ requests' = <<Request("SELECT snapshots", snapshotOutcome)>>
            /\ route' = routeAfterSnapshotError(snapshotOutcome)
            /\ IF routeAfterSnapshotError(snapshotOutcome) = SnapshotsRoute
               THEN ListMounts
               ELSE UNCHANGED <<snapshots, snapshotsLoading>>
            /\ UNCHANGED <<snapshot, snapshotPositions, summaryStats, statsLoading>>
       ELSE /\ requests' = <<Request("SELECT snapshots", "ok"),
                             Request("SELECT snapshot_positions_with_status",
                                     StoreOutcome(positionsError))>>
            /\ snapshot' = [id |-> route.id]
            /\ IF positionsError
               THEN UNCHANGED <<snapshotPositions, summaryStats, statsLoading>>
               ELSE LET data == snapshotPositionsWithStatus(dbSnapshotPositions, route.id)
                    IN  /\ snapshotPositions' = data
                        /\ summaryStats' = summaryStatsOf(data)
                        \* fetchPortfolioStats(id), not awaited: setStatsLoading(true)
                        /\ statsLoading' = TRUE
            /\ UNCHANGED <<route, snapshots, snapshotsLoading>>
  /\ detailLoading' = FALSE
  /\ positionsLoading' = FALSE
  /\ UNCHANGED <<portfolioStats, exported, dbVars, calcVars, formVars, accessVars, pageVars>>

\* fetchPortfolioStats from the answer of GET /snapshots/{id}/stats on, with
\* a failure shown to the user
FetchPortfolioStatsAlerting(http) ==
  /\ route.page = "/snapshots/[id]"
  /\ statsLoading
  /\ portfolioStats' = IF http = "ok" THEN "stats" ELSE portfolioStats
  /\ alert' = IF http = "ok" THEN alert ELSE "Error fetching portfolio stats"
  /\ statsLoading' = FALSE
  /\ UNCHANGED <<route, snapshots, snapshotsLoading, detailLoading, dbVars, requests,
                 calcVars, formVars, accessVars, detailVars, pageVars, exportVars>>

\* fetchPortfolioStats from the answer of GET /snapshots/{id}/stats on.
fetchPortfolioStats(http) ==
  /\ route.page = "/snapshots/[id]"
  /\ statsLoading
  /\ portfolioStats' = IF http = "ok" THEN "stats" ELSE portfolioStats
  /\ statsLoading' = FALSE
  /\ UNCHANGED <<route, snapshots, snapshotsLoading, detailLoading, dbVars, logVars,
                 calcVars, formVars, accessVars, detailVars, pageVars, exportVars>>

\* alert(`Error creating snapshot: ${error.message}`)
CreateSnapshotAlert(http) ==
  IF http = "status"
  THEN "Error creating snapshot: HTTP error! status: 500, message: Internal Server Error"
  ELSE "Error creating snapshot: Failed to fetch"

\* handleSaveSnapshot of the list page in add mode; named: the form has a name.
handleSaveSnapshotAdd(named) ==
  /\ route = SnapshotsRoute
  /\ ~snapshotsLoading
  /\ nextSnapshotId \in StoreSnapshotIds
  /\ \E http \in HttpOutcomes, updateError \in BOOLEAN, fetchError \in BOOLEAN :
       IF http = "ok"
       THEN /\ dbSnapshots' = dbSnapshots \cup {nextSnapshotId}
            /\ dbSnapshotPositions' =
                 dbSnapshotPositions \cup createSnapshotRows(dbPositions, nextSnapshotId)
            /\ nextSnapshotId' = nextSnapshotId + 1
            /\ requests' = <<Request("POST /snapshots/create", "ok")>>
                             \o (IF named
                                 THEN <<Request("UPDATE snapshots", StoreOutcome(updateError))>>
                                 ELSE <<>>)
                             \o <<Request("SELECT snapshots", StoreOutcome(fetchError))>>
            /\ snapshots' = IF fetchError THEN snapshots
                            ELSE snapshotsByEndDate(dbSnapshots \cup {nextSnapshotId})
            /\ alert' = NoAlert
       ELSE /\ requests' = <<Request("POST /snapshots/create", http)>>
            /\ alert' = CreateSnapshotAlert(http)
            /\ UNCHANGED <<dbSnapshots, dbSnapshotPositions, nextSnapshotId, snapshots>>
  /\ UNCHANGED <<dbPositions, nextPositionId, route, snapshotsLoading, detailLoading,
                 portfolioStats, statsLoading, calcVars, formVars, accessVars, detailVars, pageVars, exportVars>>

\* handleSaveSnapshot of the list page in edit mode: name, dates and notes.
handleSaveSnapshotEdit(editingSnapshot) ==
  /\ route = SnapshotsRoute
  /\ ~snapshotsLoading
  /\ \E error \in BOOLEAN : requests' = <<Request("UPDATE snapshots", StoreOutcome(error))>>
  /\ alert' = NoAlert
  /\ UNCHANGED <<dbVars, listVars, calcVars, formVars, accessVars, detailVars, pageVars, exportVars>>

\* handleSaveSnapshot of the detail page: name, dates and notes.
handleSaveSnapshotOfDetail ==
  /\ route.page = "/snapshots/[id]"
  /\ ~detailLoading
  /\ snapshot # NoSnapshot
  /\ \E error \in BOOLEAN : requests' = <<Request("UPDATE snapshots", StoreOutcome(error))>>
  /\ alert' = NoAlert
  /\ UNCHANGED <<dbVars, listVars, calcVars, formVars, accessVars, detailVars, pageVars, exportVars>>

\* delete() on snapshots: the foreign key of snapshot_positions refuses it
\* while a row of the snapshot exists.
deleteSnapshotRefused(db, id) == \E r \in db : r.snapshot_id = id

\* handleDeleteSnapshot of the list page.
handleDeleteSnapshotOfList(s, confirmed) ==
  /\ route = SnapshotsRoute
  /\ ~snapshotsLoading
  /\ alert' = NoAlert
  /\ IF ~confirmed
     THEN /\ requests' = <<>>
          /\ UNCHANGED <<dbSnapshots, snapshots>>
     ELSE \E failure \in BOOLEAN :
            LET error == failure \/ deleteSnapshotRefused(dbSnapshotPositions, s.id)
            IN  /\ requests' = <<Request("DELETE snapshots", StoreOutcome(error))>>
                /\ IF error
                   THEN UNCHANGED <<dbSnapshots, snapshots>>
                   ELSE /\ dbSnapshots' = dbSnapshots \ {s.id}
                        /\ snapshots' = SelectSeq(snapshots, LAMBDA snap : snap.id # s.id)
  /\ UNCHANGED <<dbPositions, dbSnapshotPositions, nextPositionId, nextSnapshotId, route,
                 snapshotsLoading, detailLoading, portfolioStats, statsLoading, calcVars, formVars, accessVars,
                 detailVars, pageVars, exportVars>>

\* handleDeleteSnapshot of the detail page.
handleDeleteSnapshotOfDetail(confirmed) ==
  /\ route.page = "/snapshots/[id]"
  /\ ~detailLoading
  /\ snapshot # NoSnapshot
  /\ alert' = NoAlert
  /\ IF ~confirmed
     THEN /\ requests' = <<>>
          /\ UNCHANGED <<dbSnapshots, route, snapshots, snapshotsLoading>>
     ELSE \E failure \in BOOLEAN :
            LET error == failure \/ deleteSnapshotRefused(dbSnapshotPositions, snapshot.id)
            IN  /\ requests' = <<Request("DELETE snapshots", StoreOutcome(error))>>
                /\ IF error
                   THEN UNCHANGED <<dbSnapshots, route, snapshots, snapshotsLoading>>
                   ELSE /\ dbSnapshots' = dbSnapshots \ {snapshot.id}
                        /\ route' = SnapshotsRoute
                        /\ ListMounts
  /\ UNCHANGED <<dbPositions, dbSnapshotPositions, nextPositionId, nextSnapshotId,
                 detailLoading, portfolioStats, statsLoading, calcVars, formVars, accessVars, detailVars, pageVars,
                 exportVars>>

FetchPricesAlert ==
  "Error fetching prices. Please check if the FastAPI server is running on port 4021."
FetchDividendsAlert ==
  "Error fetching dividends. Please check if the FastAPI server is running on port 4021."

\* The outcomes of a call for snapshot id: the service answers ok only for a
\* snapshot of the store.
HttpOutcomesFor(id) == IF id \in dbSnapshots THEN HttpOutcomes ELSE HttpOutcomes \ {"ok"}

\* handleFetchPrices with setPositions(data || []) also after a failed
\* re-read.
HandleFetchPricesClearingOnError ==
  /\ route.page = "/snapshots/[id]"
  /\ ~detailLoading
  /\ snapshot # NoSnapshot
  /\ \E http \in HttpOutcomesFor(snapshot.id), error \in BOOLEAN :
       IF http = "ok"
       THEN LET db == fetchPricesRows(dbSnapshotPositions, snapshot.id)
                data == IF error THEN <<>> ELSE snapshotPositionsWithStatus(db, snapshot.id)
            IN  /\ dbSnapshotPositions' = db
                /\ requests' = <<Request("POST /snapshots/{id}/fetch-prices", "ok"),
                                 Request("SELECT snapshot_positions_with_status",
                                         StoreOutcome(error))>>
                /\ snapshotPositions' = data
                /\ summaryStats' = summaryStatsOf(data)
                /\ alert' = "Prices fetched successfully!"
       ELSE /\ requests' = <<Request("POST /snapshots/{id}/fetch-prices", http)>>
            /\ alert' = FetchPricesAlert
            /\ UNCHANGED <<dbSnapshotPositions, snapshotPositions, summaryStats>>
  /\ UNCHANGED <<dbPositions, dbSnapshots, nextPositionId, nextSnapshotId, listVars,
                 positionsLoading, calcVars, formVars, accessVars, pageVars, exportVars>>

\* handleFetchPrices.
handleFetchPrices ==
  /\ route.page = "/snapshots/[id]"
  /\ ~detailLoading
  /\ snapshot # NoSnapshot
  /\ \E http \in HttpOutcomesFor(snapshot.id), error \in BOOLEAN :
       IF http = "ok"
       THEN LET db == fetchPricesRows(dbSnapshotPositions, snapshot.id)
                data == snapshotPositionsWithStatus(db, snapshot.id)
            IN  /\ dbSnapshotPositions' = db
                /\ requests' = <<Request("POST /snapshots/{id}/fetch-prices", "ok"),
                                 Request("SELECT snapshot_positions_with_status",
                                         StoreOutcome(error))>>
                /\ IF error
                   THEN UNCHANGED <<snapshotPositions, summaryStats>>
                   ELSE /\ snapshotPositions' = data
                        /\ summaryStats' = summaryStatsOf(data)
                /\ alert' = "Prices fetched successfully!"
       ELSE /\ requests' = <<Request("POST /snapshots/{id}/fetch-prices", http)>>
            /\ alert' = FetchPricesAlert
            /\ UNCHANGED <<dbSnapshotPositions, snapshotPositions, summaryStats>>
  /\ UNCHANGED <<dbPositions, dbSnapshots, nextPositionId, nextSnapshotId, listVars,
                 positionsLoading, calcVars, formVars, accessVars, pageVars, exportVars>>

\* handleFetchDividends.
handleFetchDividends ==
  /\ route.page = "/snapshots/[id]"
  /\ ~detailLoading
  /\ snapshot # NoSnapshot
  /\ \E http \in HttpOutcomesFor(snapshot.id), error \in BOOLEAN :
       IF http = "ok"
       THEN LET db == populateDividendsRows(dbSnapshotPositions, snapshot.id)
                data == snapshotPositionsWithStatus(db, snapshot.id)
            IN  /\ dbSnapshotPositions' = db
                /\ requests' = <<Request("POST /snapshots/{id}/populate-dividends", "ok"),
                                 Request("SELECT snapshot_positions_with_status",
                                         StoreOutcome(error))>>
                /\ IF error
                   THEN UNCHANGED <<snapshotPositions, summaryStats>>
                   ELSE /\ snapshotPositions' = data
                        /\ summaryStats' = summaryStatsOf(data)
                /\ alert' = "Dividends fetched successfully!"
       ELSE /\ requests' = <<Request("POST /snapshots/{id}/populate-dividends", http)>>
            /\ alert' = FetchDividendsAlert
            /\ UNCHANGED <<dbSnapshotPositions, snapshotPositions, summaryStats>>
  /\ UNCHANGED <<dbPositions, dbSnapshots, nextPositionId, nextSnapshotId, listVars,
                 positionsLoading, calcVars, formVars, accessVars, pageVars, exportVars>>

InitSnapshotsTab ==
  /\ CalcIdle /\ DetailInit /\ PageInit /\ ExportInit /\ AccessIdle /\ FormsIdle
  /\ \E ps \in StorePositionSets : StoreHolds(ps)

NextSnapshotsTab ==
  \/ StoreFetchSnapshots
  \/ \E id \in StoreSnapshotIds : OpenSnapshot(id)
  \/ BackToSnapshots
  \/ StoreFetchData
  \/ \E http \in HttpOutcomes : fetchPortfolioStats(http)
  \/ \E named \in BOOLEAN : handleSaveSnapshotAdd(named)
  \/ \E i \in 1..Len(snapshots) : handleSaveSnapshotEdit(snapshots[i])
  \/ handleSaveSnapshotOfDetail
  \/ \E i \in 1..Len(snapshots), confirmed \in BOOLEAN :
       handleDeleteSnapshotOfList(snapshots[i], confirmed)
  \/ \E confirmed \in BOOLEAN : handleDeleteSnapshotOfDetail(confirmed)
  \/ handleFetchPrices
  \/ handleFetchDividends

SpecSnapshotsTab == InitSnapshotsTab /\ [][NextSnapshotsTab]_vars

\* ------------------------------------------------- demo mode and ProtectedRoute
\* supabaseUrl.startsWith('https://'), on the addresses of Environments.
StartsWithHttps(url) == url = "https://project.supabase.co"

isValidUrl(url) == url # Unset /\ url # UrlPlaceholder /\ StartsWithHttps(url)
isValidKey(key) == key # Unset /\ key # KeyPlaceholder

\* The client utils/supabase.js exports: the mock, or createClient(url, key).
supabaseClient(e) ==
  IF ~isValidUrl(e.url) \/ ~isValidKey(e.key) THEN "mock" ELSE "createClient"

\* isDemoMode of ProtectedRoute and of Layout.
isDemoMode(e) == e.url = Unset \/ e.url = UrlPlaceholder

\* The pages wrapped in ProtectedRoute.
ProtectedPages == {"/", "/positions"}

\* The values of profile.role in the profiles the store returns.
Roles == {"admin", "manager", "member"}

\* A row of profiles with the role.
Profile(role) == [isNull |-> FALSE, role |-> role]

\* devProfile of the development bypass: it has no role.
DevProfile == Profile("undefined")

\* The steps of AuthProvider and of Layout that are pending: the effect of
\* AuthProvider before it ran, and the calls awaited by getInitialSession,
\* by fetchProfile (for getInitialSession or for a callback of
\* onAuthStateChange) and by signOut.
EffectPending == [await |-> "effect", userId |-> NoUser]
GetSessionCall == [await |-> "getSession", userId |-> NoUser]
FetchProfileCall(userId) == [await |-> "fetchProfile", userId |-> userId]
SignOutCall == [await |-> "signOut", userId |-> NoUser]

\* The variables no step of the access model changes.
besideAccessVars == <<calcVars, formVars, detailVars, pageVars, exportVars, storeVars>>

\* The effect of AuthProvider: the development bypass, or getInitialSession
\* up to its await of getSession.
AuthProviderEffect ==
  /\ EffectPending \in authCalls
  /\ IF env.nodeEnv = "development"
     THEN /\ authUser' = "dev-user-id"
          /\ profile' = DevProfile
          /\ authLoading' = FALSE
          /\ authCalls' = authCalls \ {EffectPending}
     ELSE /\ authCalls' = (authCalls \ {EffectPending}) \cup {GetSessionCall}
          /\ UNCHANGED <<authUser, profile, authLoading>>
  /\ UNCHANGED <<env, pathname, allowDemo, requiredRole, isAuthorized, navigation, loginError,
                 besideAccessVars>>

\* The sessions getSession resolves to: the mock client has none.
Sessions(e) == IF supabaseClient(e) = "mock" THEN {NoUser} ELSE {NoUser, "user"}

\* getInitialSession from the answer of getSession to its await of
\* fetchProfile, or to its end.
getInitialSession(session) ==
  /\ GetSessionCall \in authCalls
  /\ IF session # NoUser
     THEN /\ authUser' = session
          /\ authCalls' = (authCalls \ {GetSessionCall}) \cup {FetchProfileCall(session)}
          /\ UNCHANGED authLoading
     ELSE /\ authLoading' = FALSE
          /\ authCalls' = authCalls \ {GetSessionCall}
          /\ UNCHANGED authUser
  /\ UNCHANGED <<env, profile, pathname, allowDemo, requiredRole, isAuthorized, navigation,
                 loginError, besideAccessVars>>

\* The answers of single() on profiles: a row, PGRST116 for no row (data is
\* null), or another error (thrown and logged).
FetchProfileOutcomes == Roles \cup {"PGRST116", "error"}

\* fetchProfile from the answer of its select on, and the setLoading(false)
\* of the caller that awaited it.
fetchProfile(call, outcome) ==
  /\ call \in authCalls
  /\ call.await = "fetchProfile"
  /\ authCalls' = authCalls \ {call}
  /\ profile' = IF outcome \in Roles THEN Profile(outcome)
                ELSE IF outcome = "PGRST116" THEN NoProfile
                ELSE profile
  /\ authLoading' = FALSE
  /\ UNCHANGED <<env, authUser, pathname, allowDemo, requiredRole, isAuthorized, navigation,
                 loginError, besideAccessVars>>

\* The callback of onAuthStateChange up to its await of fetchProfile, or to
\* its end; the mock client calls it never, the development bypass
\* subscribes to nothing.
onAuthStateChange(session) ==
  /\ env.nodeEnv # "development"
  /\ supabaseClient(env) = "createClient"
  /\ EffectPending \notin authCalls
  /\ IF session # NoUser
     THEN /\ authUser' = session
          /\ authCalls' = authCalls \cup {FetchProfileCall(session)}
          /\ UNCHANGED <<profile, authLoading>>
     ELSE /\ authUser' = NoUser
          /\ profile' = NoProfile
          /\ authLoading' = FALSE
          /\ UNCHANGED authCalls
  /\ UNCHANGED <<env, pathname, allowDemo, requiredRole, isAuthorized, navigation, loginError,
                 besideAccessVars>>

\* profile.role === requiredRole || profile.role === 'admin'
hasRequiredRole(p, role) == p.role = role \/ p.role = "admin"

\* What the effect of ProtectedRoute does past its loading check: it
\* authorizes, or pushes a path, or (pushing again what is pushed) nothing.
ProtectedRouteOutcome ==
  IF allowDemo /\ isDemoMode(env) THEN [isAuthorized |-> TRUE, navigation |-> navigation]
  ELSE IF authUser = NoUser THEN [isAuthorized |-> isAuthorized, navigation |-> "/login"]
  ELSE IF requiredRole # NoRole /\ profile # NoProfile /\ ~hasRequiredRole(profile, requiredRole)
       THEN [isAuthorized |-> isAuthorized, navigation |-> "/unauthorized"]
  ELSE [isAuthorized |-> TRUE, navigation |-> navigation]

\* The effect of ProtectedRoute, when it changes something.
ProtectedRouteEffect ==
  /\ pathname \in ProtectedPages
  /\ ~authLoading
  /\ isAuthorized' = ProtectedRouteOutcome.isAuthorized
  /\ navigation' = ProtectedRouteOutcome.navigation
  /\ <<isAuthorized', navigation'>> # <<isAuthorized, navigation>>
  /\ pathname' = pathname
  /\ UNCHANGED <<env, authUser, profile, authLoading, authCalls, allowDemo, requiredRole,
                 loginError, besideAccessVars>>

\* The route change a router.push asked for completes: the page of the old
\* path unmounts; the page of '/' has allowDemo and no requiredRole.
routeChangeComplete ==
  /\ navigation # NoNavigation
  /\ pathname' = navigation
  /\ navigation' = NoNavigation
  /\ isAuthorized' = FALSE
  /\ IF navigation = "/"
     THEN allowDemo' = TRUE /\ requiredRole' = NoRole
     ELSE UNCHANGED <<allowDemo, requiredRole>>
  /\ UNCHANGED <<env, authUser, profile, authLoading, authCalls, loginError, besideAccessVars>>

\* handleSubmit of the login page; after a sign-in that went through, the
\* callback of onAuthStateChange sets the user and fetches the profile.
handleSubmit ==
  /\ pathname = "/login"
  /\ IF supabaseClient(env) = "mock"
     THEN /\ loginError' = "Supabase not configured"
          /\ UNCHANGED <<authUser, authCalls, navigation>>
     ELSE \E error \in BOOLEAN :
            IF error
            THEN /\ loginError' = "Invalid login credentials"
                 /\ UNCHANGED <<authUser, authCalls, navigation>>
            ELSE /\ loginError' = ""
                 /\ authUser' = "user"
                 /\ authCalls' = IF env.nodeEnv = "development" THEN authCalls
                                 ELSE authCalls \cup {FetchProfileCall("user")}
                 /\ navigation' = "/"
  /\ UNCHANGED <<env, profile, authLoading, pathname, allowDemo, requiredRole, isAuthorized,
                 besideAccessVars>>

\* The tab goes to a page wrapped in ProtectedRoute with the two props.
OpenProtectedPage(demoAllowed, role) ==
  /\ ~authLoading
  /\ pathname' = "/positions"
  /\ navigation' = NoNavigation
  /\ allowDemo' = demoAllowed
  /\ requiredRole' = role
  /\ isAuthorized' = FALSE
  /\ loginError' = ""
  /\ UNCHANGED <<env, authUser, profile, authLoading, authCalls, besideAccessVars>>

\* handleSignOut of Layout up to its await of signOut; Layout is among the
\* children of ProtectedRoute.
handleSignOut ==
  /\ pathname \in ProtectedPages
  /\ ~authLoading
  /\ isAuthorized
  /\ authCalls' = authCalls \cup {SignOutCall}
  /\ UNCHANGED <<env, authUser, profile, authLoading, pathname, allowDemo, requiredRole,
                 isAuthorized, navigation, loginError, besideAccessVars>>

\* signOut from the answer of supabase.auth.signOut on, and the
\* router.push('/login') of handleSignOut after it; the mock never fails.
signOut(error) ==
  /\ SignOutCall \in authCalls
  /\ ~(error /\ supabaseClient(env) = "mock")
  /\ authCalls' = authCalls \ {SignOutCall}
  /\ IF error
     THEN UNCHANGED <<authUser, profile>>
     ELSE authUser' = NoUser /\ profile' = NoProfile
  /\ navigation' = "/login"
  /\ UNCHANGED <<env, authLoading, pathname, allowDemo, requiredRole, isAuthorized, loginError,
                 besideAccessVars>>

\* The props requiredRole of the pages.
RequiredRoles == {NoRole, "manager"}

InitAccess ==
  /\ CalcIdle /\ DetailInit /\ PageInit /\ ExportInit /\ StoreInit /\ FormsIdle
  /\ \E e \in Environments, demoAllowed \in BOOLEAN : AccessStarts(e, demoAllowed)

NextAccess ==
  \/ AuthProviderEffect
  \/ \E session \in Sessions(env) : getInitialSession(session)
  \/ \E call \in authCalls, outcome \in FetchProfileOutcomes : fetchProfile(call, outcome)
  \/ \E session \in {NoUser, "user"} : onAuthStateChange(session)
  \/ ProtectedRouteEffect
  \/ routeChangeComplete
  \/ handleSubmit
  \/ \E demoAllowed \in BOOLEAN, role \in RequiredRoles : OpenProtectedPage(demoAllowed, role)
  \/ handleSignOut
  \/ \E error \in BOOLEAN : signOut(error)

SpecAccess == InitAccess /\ [][NextAccess]_vars

\* ------------------------------------------------- reset-password page
\* The texts typed into the two password inputs.
Passwords == {"", "abc", "secret", "secret1"}

\* The least length handleSubmit lets through.
MinPasswordLength == 6

\* What updatePassword resolves to: no error, an error with a message, an
\* error without one.  It catches whatever updateUser throws.
UpdatePasswordOutcomes == {"ok", "message", "no message"}

\* The variables of every page but the reset-password page.
beforeFormVars == <<calcVars, detailVars, pageVars, exportVars, afterExportVars>>
besideResetVars == <<raceVars, settingsVars, dialogVars, fetchVars, beforeFormVars>>

\* onChange of the password input.
setPassword(value) ==
  /\ ~success
  /\ password' = value
  /\ UNCHANGED <<confirmPassword, updating, resetError, success, updateUser, besideResetVars>>

\* onChange of the confirm-password input.
setConfirmPassword(value) ==
  /\ ~success
  /\ confirmPassword' = value
  /\ UNCHANGED <<password, updating, resetError, success, updateUser, besideResetVars>>

\* handleSubmit without its length check.
HandleSubmitAnyLength ==
  /\ ~success /\ ~updating
  /\ IF password # confirmPassword
       THEN /\ resetError' = "Passwords do not match"
            /\ updating' = FALSE
            /\ UNCHANGED updateUser
       ELSE /\ resetError' = ""
            /\ updating' = TRUE
            /\ updateUser' = password
  /\ UNCHANGED <<password, confirmPassword, success, besideResetVars>>

\* handleSubmit of the reset-password page up to its await: the submit
\* button is disabled while updating, the form is gone after success.
handleSubmitOfResetPassword ==
  /\ ~success /\ ~updating
  /\ IF password # confirmPassword
       THEN /\ resetError' = "Passwords do not match"
            /\ updating' = FALSE
            /\ UNCHANGED updateUser
       ELSE IF Len(password) < MinPasswordLength
              THEN /\ resetError' = "Password must be at least 6 characters long"
                   /\ updating' = FALSE
                   /\ UNCHANGED updateUser
              ELSE /\ resetError' = ""
                   /\ updating' = TRUE
                   /\ updateUser' = password
  /\ UNCHANGED <<password, confirmPassword, success, besideResetVars>>

\* handleSubmit from the moment updatePassword settles.
updatePasswordSettles(outcome) ==
  /\ updateUser # NoRequest
  /\ updateUser' = NoRequest
  /\ CASE outcome = "ok" -> success' = TRUE /\ UNCHANGED resetError
       [] outcome = "message" -> resetError' = "Auth session missing!" /\ UNCHANGED success
       [] OTHER -> resetError' = "Failed to update password" /\ UNCHANGED success
  /\ updating' = FALSE
  /\ UNCHANGED <<password, confirmPassword, besideResetVars>>

InitReset == CalcIdle /\ DetailInit /\ PageInit /\ LaterInit

NextReset ==
  \/ \E value \in Passwords : setPassword(value)
  \/ \E value \in Passwords : setConfirmPassword(value)
  \/ handleSubmitOfResetPassword
  \/ \E outcome \in UpdatePasswordOutcomes : updatePasswordSettles(outcome)

SpecReset == InitReset /\ [][NextReset]_vars

\* ------------------------------- snapshot detail page: route id changes
\* The detail page stays mounted while the id of its route changes; each
\* change runs the effect of [id, router], which starts one fetchData.  A
\* call in flight is [id, awaiting]: the id its closure captured and the
\* request it awaits.

\* fetchData as the effect starts it.
FetchDataCall(id) == [id |-> id, awaiting |-> "snapshot"]

\* The variables the route-change actions leave alone.
besideRaceVars == <<calcVars, pageVars, exported, dbVars, snapshots, snapshotsLoading,
                    logVars, accessVars, resetVars, settingsVars, dialogVars, fetchVars>>

\* The effect of [id, router] on a new id: fetchData() up to its first await.
RouteIdChanges(id) ==
  /\ route.page = "/snapshots/[id]"
  /\ id # route.id
  /\ route' = SnapshotRoute(id)
  /\ fetchDataCalls' = fetchDataCalls \cup {FetchDataCall(id)}
  /\ detailLoading' = TRUE
  /\ positionsLoading' = TRUE
  /\ UNCHANGED <<snapshot, editForm, snapshotPositions, summaryStats, portfolioStats,
                 statsLoading, besideRaceVars>>

\* fetchData from the answer of single() on snapshots to its next await (or
\* its return).
fetchDataSnapshotSettles(call, failed) ==
  /\ call \in fetchDataCalls
  /\ call.awaiting = "snapshot"
  /\ IF failed
     THEN /\ fetchDataCalls' = fetchDataCalls \ {call}
          /\ detailLoading' = FALSE
          /\ positionsLoading' = FALSE
          /\ UNCHANGED <<snapshot, editForm>>
     ELSE /\ snapshot' = [id |-> call.id]
          /\ editForm' = [id |-> call.id]
          /\ fetchDataCalls' = (fetchDataCalls \ {call}) \cup {[call EXCEPT !.awaiting = "positions"]}
          /\ UNCHANGED <<detailLoading, positionsLoading>>
  /\ UNCHANGED <<route, snapshotPositions, summaryStats, portfolioStats, statsLoading,
                 besideRaceVars>>

\* fetchData from the answer of the select on snapshot_positions_with_status
\* to its end.
fetchDataPositionsSettle(call, failed) ==
  /\ call \in fetchDataCalls
  /\ call.awaiting = "positions"
  /\ fetchDataCalls' = fetchDataCalls \ {call}
  /\ IF failed
     THEN UNCHANGED <<snapshotPositions, summaryStats, statsLoading>>
     ELSE LET data == snapshotPositionsWithStatus(dbSnapshotPositions, call.id)
          IN  /\ snapshotPositions' = data
              /\ summaryStats' = summaryStatsOf(data)
              \* fetchPortfolioStats(id), not awaited: setStatsLoading(true)
              /\ statsLoading' = TRUE
  /\ detailLoading' = FALSE
  /\ positionsLoading' = FALSE
  /\ UNCHANGED <<route, snapshot, editForm, portfolioStats, besideRaceVars>>

\* fetchPortfolioStats settling while the page is mounted.
fetchPortfolioStatsSettles(http) ==
  /\ fetchPortfolioStats(http)
  /\ UNCHANGED raceVars

\* The detail page of snapshot id as it mounts, over a store of two
\* snapshots of the positions ps; the second has its end prices fetched.
RouteStarts(ps, id) ==
  /\ dbPositions = ps
  /\ dbSnapshots = StoreSnapshotIds
  /\ dbSnapshotPositions = createSnapshotRows(ps, 1) \cup fetchPricesRows(createSnapshotRows(ps, 2), 2)
  /\ nextPositionId = Cardinality(ps) + 1
  /\ nextSnapshotId = 3
  /\ route = SnapshotRoute(id)
  /\ snapshots = <<>>
  /\ snapshotsLoading = TRUE
  /\ detailLoading = TRUE
  /\ portfolioStats = NoStats
  /\ statsLoading = FALSE
  /\ requests = <<>>
  /\ alert = NoAlert
  /\ fetchDataCalls = {FetchDataCall(id)}
  /\ editForm = NoSnapshot

InitRoute ==
  /\ CalcIdle /\ DetailInit /\ PageInit /\ ExportInit /\ AccessIdle /\ ResetInit /\ SettingsInit
  /\ DialogsInit /\ FetchInit
  /\ \E ps \in StorePositionSets, id \in StoreSnapshotIds : RouteStarts(ps, id)

NextRoute ==
  \/ \E id \in StoreSnapshotIds : RouteIdChanges(id)
  \/ \E call \in fetchDataCalls, failed \in BOOLEAN : fetchDataSnapshotSettles(call, failed)
  \/ \E call \in fetchDataCalls, failed \in BOOLEAN : fetchDataPositionsSettle(call, failed)
  \/ \E http \in HttpOutcomes : fetchPortfolioStatsSettles(http)

SpecRoute == InitRoute /\ [][NextRoute]_vars

\* ------------------------------------------------------- settings page
\* The keys of settings, in the order of Object.entries.
SettingKeys == <<"theme", "show_percentage_returns", "data_retention_days">>

\* The values the inputs of the page hand to handleInputChange: the options
\* of the theme select, e.target.checked, parseInt(e.target.value) || 365.
InputValues(key) ==
  CASE key = "theme" -> {Str("system"), Str("dark")}
    [] key = "show_percentage_returns" -> {Bool(TRUE), Bool(FALSE)}
    [] key = "data_retention_days" -> {Number("365"), Number("30")}

\* The values of SettingsData.
SettingsData ==
  [theme : InputValues("theme"),
   show_percentage_returns : InputValues("show_percentage_returns"),
   data_retention_days : InputValues("data_retention_days")]

\* String(value): the text of the value, as a string.
String(value) == Str(value.text)

\* Object.entries(settings).map(([key, value]) => ({ key, value: String(value) }))
settingsArray(s) ==
  [i \in 1..Len(SettingKeys) |-> [key |-> SettingKeys[i], value |-> String(s[SettingKeys[i]])]]

\* upsert(row, { onConflict: 'key' })
upsert(rows, setting) == {r \in rows : r.key # setting.key} \cup {setting}

\* data.reduce((acc, setting) => { acc[setting.key] = setting.value ... }) and
\* ({ ...prev, ...settingsObj })
mergeSettings(prev, data) ==
  [key \in DOMAIN prev |->
     IF \E r \in data : r.key = key
     THEN (CHOOSE r \in data : r.key = key).value
     ELSE prev[key]]

\* checked={value} of a checkbox: the truthiness of the value.
checked(value) ==
  IF value.type = "boolean" THEN value.text = "true" ELSE value.text # ""

\* The variables of every page but the settings page.
besideSettingsVars ==
  <<resetVars, raceVars, dialogVars, fetchVars, calcVars, detailVars, pageVars, exportVars, dbVars,
    listVars, requests, accessVars>>

\* loadSettings, from the answer of its select on.
loadSettings(error) ==
  /\ settingsLoading
  /\ settings' = IF ~error /\ settingsRows # {}
                 THEN mergeSettings(settings, settingsRows) ELSE settings
  /\ settingsLoading' = FALSE
  /\ UNCHANGED <<saving, showConfirmDialog, settingsRows, upserts, alert, besideSettingsVars>>

\* handleInputChange.
handleInputChange(key, value) ==
  /\ ~settingsLoading
  /\ settings' = [settings EXCEPT ![key] = value]
  /\ UNCHANGED <<settingsLoading, saving, showConfirmDialog, settingsRows, upserts, alert,
                 besideSettingsVars>>

\* The Save button: setShowConfirmDialog(true); it is disabled while saving.
openConfirmDialog ==
  /\ ~settingsLoading
  /\ ~saving
  /\ ~showConfirmDialog
  /\ showConfirmDialog' = TRUE
  /\ UNCHANGED <<settings, settingsLoading, saving, settingsRows, upserts, alert,
                 besideSettingsVars>>

\* handleSaveSettings up to the await of its first upsert.
handleSaveSettings ==
  /\ showConfirmDialog
  /\ ~saving
  /\ saving' = TRUE
  /\ upserts' = settingsArray(settings)
  /\ UNCHANGED <<settings, settingsLoading, showConfirmDialog, settingsRows, alert,
                 besideSettingsVars>>

\* handleSaveSettings from the answer of an upsert to the await of the next
\* one, or to its end.
upsertSettles(error) ==
  /\ upserts # <<>>
  /\ IF error
     THEN /\ alert' = "Error saving settings. Please try again."
          /\ upserts' = <<>>
          /\ saving' = FALSE
          /\ showConfirmDialog' = FALSE
          /\ UNCHANGED settingsRows
     ELSE /\ settingsRows' = upsert(settingsRows, Head(upserts))
          /\ upserts' = Tail(upserts)
          /\ IF Tail(upserts) = <<>>
             THEN /\ alert' = "Settings saved successfully!"
                  /\ saving' = FALSE
                  /\ showConfirmDialog' = FALSE
             ELSE UNCHANGED <<alert, saving, showConfirmDialog>>
  /\ UNCHANGED <<settings, settingsLoading, besideSettingsVars>>

\* The page is loaded again (for one, by window.location.reload() of its
\* Reset button).
reloadSettings ==
  /\ ~settingsLoading
  /\ ~saving
  /\ settings' = DefaultSettings
  /\ settingsLoading' = TRUE
  /\ showConfirmDialog' = FALSE
  /\ alert' = NoAlert
  /\ UNCHANGED <<saving, settingsRows, upserts, besideSettingsVars>>

InitSettings == CalcIdle /\ DetailInit /\ PageInit /\ LaterInit

NextSettings ==
  \/ \E error \in BOOLEAN : loadSettings(error)
  \/ \E i \in 1..Len(SettingKeys) : \E value \in InputValues(SettingKeys[i]) :
       handleInputChange(SettingKeys[i], value)
  \/ openConfirmDialog
  \/ handleSaveSettings
  \/ \E error \in BOOLEAN : upsertSettles(error)
  \/ reloadSettings

SpecSettings == InitSettings /\ [][NextSettings]_vars

\* ------------------------------------------------ dialogs of the pages
\* One tab that shows the positions page, the snapshot list page or a
\* snapshot detail page, with the dialogs of each.  Here a row of snapshots
\* is [id, end_date], an end date being a day number, and the editForm of
\* the mounted page holds the field the dialog edits: the ticker of a
\* position, or the end_date of a snapshot.

PositionsRoute == [page |-> "/positions", id |-> 0]

EndDates == 1..MaxEndDate

\* The variables the pages with dialogs leave alone.
outsideDialogs ==
  <<calcVars, exported, accessVars, resetVars, settingsVars, fetchVars, fetchDataCalls,
    statusFilter>>

positionsPageVars == <<positions, loading, filteredPositions>>
listPageVars == <<snapshots, snapshotsLoading>>
detailPageVars ==
  <<snapshot, snapshotPositions, positionsLoading, summaryStats, detailLoading, portfolioStats,
    statsLoading>>

\* The list is in descending order of end_date.
OrderedByEndDate(list) ==
  \A i \in 1..Len(list), j \in 1..Len(list) : i < j => list[i].end_date >= list[j].end_date

\* order('end_date', { ascending: false }): the lists the store may answer
\* with; rows of the same end_date come in any order.
orderByEndDate(rows) ==
  {list \in [1..Cardinality(rows) -> rows] :
     /\ \A i \in 1..Len(list), j \in 1..Len(list) : i # j => list[i] # list[j]
     /\ OrderedByEndDate(list)}

\* Every page of the tab as it mounts (a page that is not shown holds its
\* initial state).
PagesMount ==
  /\ positions' = <<>>
  /\ loading' = TRUE
  /\ filteredPositions' = filteredPositionsOf(<<>>, statusFilter)
  /\ snapshots' = <<>>
  /\ snapshotsLoading' = TRUE
  /\ snapshot' = NoSnapshot
  /\ snapshotPositions' = <<>>
  /\ positionsLoading' = TRUE
  /\ summaryStats' = summaryStatsOf(<<>>)
  /\ detailLoading' = TRUE
  /\ portfolioStats' = NoStats
  /\ statsLoading' = FALSE
  /\ editForm' = NoSnapshot
  /\ isModalOpen' = FALSE
  /\ isAddMode' = FALSE
  /\ editingPos' = NoPosition
  /\ editingSnap' = NoSnapshot
  /\ isSaving' = FALSE
  /\ isEditModalOpen' = FALSE
  /\ requests' = <<>>
  /\ alert' = NoAlert

\* The tab goes to another page, no save of the list page being under way.
OpenPage(r) ==
  /\ r # route
  /\ ~isSaving
  /\ route' = r
  /\ PagesMount
  /\ UNCHANGED <<dbVars, outsideDialogs>>

\* fetchSnapshots of the list page.
fetchSnapshots(error) ==
  /\ route = SnapshotsRoute
  /\ snapshotsLoading
  /\ requests' = <<Request("SELECT snapshots", StoreOutcome(error))>>
  /\ alert' = NoAlert
  /\ IF error
     THEN UNCHANGED snapshots
     ELSE \E data \in orderByEndDate(dbSnapshots) : snapshots' = data
  /\ snapshotsLoading' = FALSE
  /\ UNCHANGED <<route, dbVars, positionsPageVars, detailPageVars, editForm, dialogVars,
                 outsideDialogs>>

\* handleAddSnapshot, and the end date the user leaves in the form.
handleAddSnapshot(end_date) ==
  /\ route = SnapshotsRoute
  /\ ~snapshotsLoading
  /\ ~isModalOpen
  /\ nextSnapshotId \in StoreSnapshotIds
  /\ editingSnap' = NoSnapshot
  /\ isAddMode' = TRUE
  /\ editForm' = [end_date |-> end_date]
  /\ isModalOpen' = TRUE
  /\ UNCHANGED <<route, dbVars, positionsPageVars, listPageVars, detailPageVars, editingPos,
                 isSaving, isEditModalOpen, logVars, outsideDialogs>>

\* handleEditSnapshot of the list page, and the end date the user leaves in
\* the form.
handleEditSnapshot(s, end_date) ==
  /\ route = SnapshotsRoute
  /\ ~snapshotsLoading
  /\ ~isModalOpen
  /\ editingSnap' = s
  /\ isAddMode' = FALSE
  /\ editForm' = [end_date |-> end_date]
  /\ isModalOpen' = TRUE
  /\ UNCHANGED <<route, dbVars, positionsPageVars, listPageVars, detailPageVars, editingPos,
                 isSaving, isEditModalOpen, logVars, outsideDialogs>>

\* The Cancel button of the dialog of the positions page and of the list
\* page.
closeModal ==
  /\ isModalOpen
  /\ isModalOpen' = FALSE
  /\ UNCHANGED <<route, dbVars, positionsPageVars, listPageVars, detailPageVars, editForm,
                 isAddMode, editingPos, editingSnap, isSaving, isEditModalOpen, logVars,
                 outsideDialogs>>

\* handleSaveSnapshot of the list page up to its first await; the Save
\* button is disabled while isSaving.
handleSaveSnapshot ==
  /\ route = SnapshotsRoute
  /\ isModalOpen
  /\ ~isSaving
  /\ isSaving' = TRUE
  /\ UNCHANGED <<route, dbVars, positionsPageVars, listPageVars, detailPageVars, editForm,
                 isModalOpen, isAddMode, editingPos, editingSnap, isEditModalOpen, logVars,
                 outsideDialogs>>

\* setIsModalOpen(false), setEditingSnapshot(null), setIsAddMode(false)
SnapshotDialogCloses ==
  /\ isModalOpen' = FALSE
  /\ editingSnap' = NoSnapshot
  /\ isAddMode' = FALSE

\* handleSaveSnapshot of the list page from the answer of its first request
\* to its end.
handleSaveSnapshotSettles ==
  /\ route = SnapshotsRoute
  /\ isSaving
  /\ IF isAddMode
     THEN \E http \in HttpOutcomes, named \in BOOLEAN, updateError \in BOOLEAN,
             fetchError \in BOOLEAN :
            IF http = "ok"
            THEN LET created == [id |-> nextSnapshotId, end_date |-> editForm.end_date]
                 IN  /\ dbSnapshots' = dbSnapshots \cup {created}
                     /\ dbSnapshotPositions' =
                          dbSnapshotPositions \cup createSnapshotRows(dbPositions, nextSnapshotId)
                     /\ nextSnapshotId' = nextSnapshotId + 1
                     /\ requests' = <<Request("POST /snapshots/create", "ok")>>
                                      \o (IF named
                                          THEN <<Request("UPDATE snapshots", StoreOutcome(updateError))>>
                                          ELSE <<>>)
                                      \o <<Request("SELECT snapshots", StoreOutcome(fetchError))>>
                     /\ IF fetchError
                        THEN UNCHANGED snapshots
                        ELSE \E data \in orderByEndDate(dbSnapshots \cup {created}) :
                               snapshots' = data
                     /\ alert' = NoAlert
                     /\ SnapshotDialogCloses
            ELSE /\ requests' = <<Request("POST /snapshots/create", http)>>
                 /\ alert' = CreateSnapshotAlert(http)
                 /\ UNCHANGED <<dbSnapshots, dbSnapshotPositions, nextSnapshotId, snapshots,
                                isModalOpen, editingSnap, isAddMode>>
     ELSE \E error \in BOOLEAN :
            /\ requests' = <<Request("UPDATE snapshots", StoreOutcome(error))>>
            /\ alert' = NoAlert
            /\ UNCHANGED <<dbSnapshotPositions, nextSnapshotId>>
            /\ IF error
               THEN UNCHANGED <<dbSnapshots, snapshots, isModalOpen, editingSnap, isAddMode>>
               ELSE LET updateData(snap) == [snap EXCEPT !.end_date = editForm.end_date]
                    IN  /\ dbSnapshots' = {IF r.id = editingSnap.id THEN updateData(r) ELSE r :
                                             r \in dbSnapshots}
                        /\ snapshots' = [i \in 1..Len(snapshots) |->
                                           IF snapshots[i].id = editingSnap.id
                                           THEN updateData(snapshots[i]) ELSE snapshots[i]]
                        /\ SnapshotDialogCloses
  /\ isSaving' = FALSE
  /\ UNCHANGED <<route, dbPositions, nextPositionId, positionsPageVars, snapshotsLoading,
                 detailPageVars, editForm, editingPos, isEditModalOpen, outsideDialogs>>

\* handleDeleteSnapshot of the list page; the store refuses to delete a
\* snapshot that snapshot_positions rows refer to.
handleDeleteSnapshot(s, confirmed) ==
  /\ route = SnapshotsRoute
  /\ ~snapshotsLoading
  /\ ~isModalOpen
  /\ alert' = NoAlert
  /\ IF ~confirmed
     THEN /\ requests' = <<>>
          /\ UNCHANGED <<dbSnapshots, snapshots>>
     ELSE \E failure \in BOOLEAN :
            LET error == failure \/ deleteSnapshotRefused(dbSnapshotPositions, s.id)
            IN  /\ requests' = <<Request("DELETE snapshots", StoreOutcome(error))>>
                /\ IF error
                   THEN UNCHANGED <<dbSnapshots, snapshots>>
                   ELSE /\ dbSnapshots' = {r \in dbSnapshots : r.id # s.id}
                        /\ snapshots' = SelectSeq(snapshots, LAMBDA snap : snap.id # s.id)
  /\ UNCHANGED <<route, dbPositions, dbSnapshotPositions, nextPositionId, nextSnapshotId,
                 positionsPageVars, snapshotsLoading, detailPageVars, editForm, dialogVars,
                 outsideDialogs>>

\* handleAddPosition, and the ticker the user types into the form.
handleAddPosition(ticker) ==
  /\ route = PositionsRoute
  /\ ~loading
  /\ ~isModalOpen
  /\ nextPositionId \in StorePositionIds
  /\ editingPos' = NoPosition
  /\ isAddMode' = TRUE
  /\ editForm' = [ticker |-> ticker]
  /\ isModalOpen' = TRUE
  /\ UNCHANGED <<route, dbVars, positionsPageVars, listPageVars, detailPageVars, editingSnap,
                 isSaving, isEditModalOpen, logVars, outsideDialogs>>

\* handleEditPosition, and the ticker the user leaves in the form.
handleEditPosition(position, ticker) ==
  /\ route = PositionsRoute
  /\ ~loading
  /\ ~isModalOpen
  /\ editingPos' = position
  /\ isAddMode' = FALSE
  /\ editForm' = [ticker |-> ticker]
  /\ isModalOpen' = TRUE
  /\ UNCHANGED <<route, dbVars, positionsPageVars, listPageVars, detailPageVars, editingSnap,
                 isSaving, isEditModalOpen, logVars, outsideDialogs>>

\* setIsModalOpen(false), setEditingPosition(null), setIsAddMode(false)
PositionDialogCloses ==
  /\ isModalOpen' = FALSE
  /\ editingPos' = NoPosition
  /\ isAddMode' = FALSE

\* handleSavePosition; the form's status is its default, 'Open'.
handleSavePosition ==
  /\ route = PositionsRoute
  /\ isModalOpen
  /\ alert' = NoAlert
  /\ \E error \in BOOLEAN :
       IF isAddMode
       THEN /\ requests' = <<Request("INSERT positions", StoreOutcome(error))>>
            /\ IF error
               THEN UNCHANGED <<dbPositions, nextPositionId, positions, filteredPositions,
                                isModalOpen, editingPos, isAddMode>>
               ELSE LET data == [id |-> nextPositionId, ticker |-> editForm.ticker,
                                 status |-> "Open"]
                    IN  /\ dbPositions' = dbPositions \cup {data}
                        /\ nextPositionId' = nextPositionId + 1
                        /\ positions' = <<data>> \o positions
                        /\ filteredPositions' =
                             filteredPositionsOf(<<data>> \o positions, statusFilter)
                        /\ PositionDialogCloses
       ELSE /\ requests' = <<Request("UPDATE positions", StoreOutcome(error))>>
            /\ UNCHANGED nextPositionId
            /\ IF error
               THEN UNCHANGED <<dbPositions, positions, filteredPositions, isModalOpen,
                                editingPos, isAddMode>>
               ELSE LET updateData(pos) == [pos EXCEPT !.ticker = editForm.ticker]
                        data == [i \in 1..Len(positions) |->
                                   IF positions[i].id = editingPos.id
                                   THEN updateData(positions[i]) ELSE positions[i]]
                    IN  /\ dbPositions' = {IF r.id = editingPos.id THEN updateData(r) ELSE r :
                                             r \in dbPositions}
                        /\ positions' = data
                        /\ filteredPositions' = filteredPositionsOf(data, statusFilter)
                        /\ PositionDialogCloses
  /\ UNCHANGED <<route, dbSnapshots, dbSnapshotPositions, nextSnapshotId, loading, listPageVars,
                 detailPageVars, editForm, editingSnap, isSaving, isEditModalOpen,
                 outsideDialogs>>

\* fetchPositions and handleDeletePosition of the positions page of the tab.
fetchPositionsOfTab == route = PositionsRoute /\ StoreFetchPositions
handleDeletePositionOfTab(position, confirmed) ==
  /\ route = PositionsRoute
  /\ ~isModalOpen
  /\ handleDeletePosition(position, confirmed)

\* fetchData of the detail page; single() answers PGRST116 for an id the
\* store holds no snapshot of.
fetchData ==
  /\ route.page = "/snapshots/[id]"
  /\ detailLoading
  /\ alert' = NoAlert
  /\ LET found == {r \in dbSnapshots : r.id = route.id}
     IN  \E snapshotError \in BOOLEAN, positionsError \in BOOLEAN :
           IF found = {} /\ ~snapshotError
           THEN \* router.push('/snapshots')
                /\ route' = SnapshotsRoute
                /\ snapshots' = <<>>
                /\ snapshotsLoading' = TRUE
                /\ requests' = <<Request("SELECT snapshots", "PGRST116")>>
                /\ UNCHANGED <<snapshot, editForm, snapshotPositions, summaryStats, statsLoading>>
           ELSE IF snapshotError
           THEN /\ requests' = <<Request("SELECT snapshots", "error")>>
                /\ UNCHANGED <<route, listPageVars, snapshot, editForm, snapshotPositions,
                               summaryStats, statsLoading>>
           ELSE LET snapshotData == CHOOSE r \in found : TRUE
                    data == snapshotPositionsWithStatus(dbSnapshotPositions, route.id)
                IN  /\ requests' = <<Request("SELECT snapshots", "ok"),
                                     Request("SELECT snapshot_positions_with_status",
                                             StoreOutcome(positionsError))>>
                    /\ snapshot' = snapshotData
                    /\ editForm' = [end_date |-> snapshotData.end_date]
                    /\ IF positionsError
                       THEN UNCHANGED <<snapshotPositions, summaryStats, statsLoading>>
                       ELSE /\ snapshotPositions' = data
                            /\ summaryStats' = summaryStatsOf(data)
                            \* fetchPortfolioStats(id), not awaited
                            /\ statsLoading' = TRUE
                    /\ UNCHANGED <<route, listPageVars>>
  /\ detailLoading' = FALSE
  /\ positionsLoading' = FALSE
  /\ UNCHANGED <<dbVars, positionsPageVars, portfolioStats, dialogVars, outsideDialogs>>

\* handleEditSnapshot of the detail page, and the end date the user leaves
\* in the form.
handleEditSnapshotOfDetail(end_date) ==
  /\ route.page = "/snapshots/[id]"
  /\ ~detailLoading
  /\ snapshot # NoSnapshot
  /\ ~isEditModalOpen
  /\ isEditModalOpen' = TRUE
  /\ editForm' = [end_date |-> end_date]
  /\ UNCHANGED <<route, dbVars, positionsPageVars, listPageVars, detailPageVars, isModalOpen,
                 isAddMode, editingPos, editingSnap, isSaving, logVars, outsideDialogs>>

\* The Cancel button of the dialog of the detail page.
closeEditModal ==
  /\ isEditModalOpen
  /\ isEditModalOpen' = FALSE
  /\ UNCHANGED <<route, dbVars, positionsPageVars, listPageVars, detailPageVars, editForm,
                 isModalOpen, isAddMode, editingPos, editingSnap, isSaving, logVars,
                 outsideDialogs>>

\* handleSaveSnapshot of the detail page.
handleSaveSnapshotDated ==
  /\ route.page = "/snapshots/[id]"
  /\ isEditModalOpen
  /\ snapshot # NoSnapshot
  /\ alert' = NoAlert
  /\ \E error \in BOOLEAN :
       /\ requests' = <<Request("UPDATE snapshots", StoreOutcome(error))>>
       /\ IF error
          THEN UNCHANGED <<dbSnapshots, snapshot, isEditModalOpen>>
          ELSE LET updateData(snap) == [snap EXCEPT !.end_date = editForm.end_date]
               IN  /\ dbSnapshots' = {IF r.id = snapshot.id THEN updateData(r) ELSE r :
                                        r \in dbSnapshots}
                   /\ snapshot' = updateData(snapshot)
                   /\ isEditModalOpen' = FALSE
  /\ UNCHANGED <<route, dbPositions, dbSnapshotPositions, nextPositionId, nextSnapshotId,
                 positionsPageVars, listPageVars, snapshotPositions, positionsLoading,
                 summaryStats, detailLoading, portfolioStats, statsLoading, editForm,
                 isModalOpen, isAddMode, editingPos, editingSnap, isSaving, outsideDialogs>>

\* handleDeleteSnapshot of the detail page.
handleDeleteSnapshotDated(confirmed) ==
  /\ route.page = "/snapshots/[id]"
  /\ ~detailLoading
  /\ snapshot # NoSnapshot
  /\ ~isEditModalOpen
  /\ IF ~confirmed
     THEN /\ requests' = <<>>
          /\ alert' = NoAlert
          /\ UNCHANGED <<route, dbSnapshots, listPageVars, detailPageVars, editForm>>
     ELSE \E failure \in BOOLEAN :
            LET error == failure \/ deleteSnapshotRefused(dbSnapshotPositions, snapshot.id)
            IN  IF error
                THEN /\ requests' = <<Request("DELETE snapshots", "error")>>
                     /\ alert' = NoAlert
                     /\ UNCHANGED <<route, dbSnapshots, listPageVars, detailPageVars, editForm>>
                ELSE \* router.push('/snapshots')
                     /\ dbSnapshots' = {r \in dbSnapshots : r.id # snapshot.id}
                     /\ route' = SnapshotsRoute
                     /\ snapshots' = <<>>
                     /\ snapshotsLoading' = TRUE
                     /\ snapshot' = NoSnapshot
                     /\ snapshotPositions' = <<>>
                     /\ positionsLoading' = TRUE
                     /\ summaryStats' = summaryStatsOf(<<>>)
                     /\ detailLoading' = TRUE
                     /\ portfolioStats' = NoStats
                     /\ statsLoading' = FALSE
                     /\ editForm' = NoSnapshot
                     /\ requests' = <<Request("DELETE snapshots", "ok")>>
                     /\ alert' = NoAlert
  /\ UNCHANGED <<dbPositions, dbSnapshotPositions, nextPositionId, nextSnapshotId,
                 positionsPageVars, dialogVars, outsideDialogs>>

InitDialogs ==
  /\ CalcIdle /\ DetailInit /\ PageInit /\ ExportInit /\ AccessIdle /\ FormsIdle
  /\ \E ps \in StorePositionSets : StoreHolds(ps)

NextDialogs ==
  \/ \E r \in {PositionsRoute, SnapshotsRoute} : OpenPage(r)
  \/ \E error \in BOOLEAN : fetchSnapshots(error)
  \/ \E end_date \in EndDates : handleAddSnapshot(end_date)
  \/ \E i \in 1..Len(snapshots), end_date \in EndDates : handleEditSnapshot(snapshots[i], end_date)
  \/ closeModal
  \/ handleSaveSnapshot
  \/ handleSaveSnapshotSettles
  \/ \E i \in 1..Len(snapshots), confirmed \in BOOLEAN : handleDeleteSnapshot(snapshots[i], confirmed)

SpecDialogs == InitDialogs /\ [][NextDialogs]_vars

\* ------------------------------------------- one page of the tab, as it mounts
\* The pages that write to the store: the positions page, the snapshot list
\* and the detail page of a snapshot the store holds or has lost.
MutatingPages == {PositionsRoute, SnapshotsRoute} \cup {SnapshotRoute(id) : id \in StoreSnapshotIds}

\* A page mounts over a store of the positions ps and of one snapshot of
\* them, created by the snapshot builder.
InitMutations ==
  /\ CalcIdle /\ DetailInit /\ PageInit /\ ExportInit /\ AccessIdle /\ FormsIdle
  /\ \E ps \in StorePositionSets, r \in MutatingPages :
       /\ dbPositions = ps
       /\ dbSnapshots = {[id |-> 1, end_date |-> 1]}
       /\ dbSnapshotPositions = createSnapshotRows(ps, 1)
       /\ nextPositionId = Cardinality(ps) + 1
       /\ nextSnapshotId = 2
       /\ route = r
  /\ portfolioStats = NoStats
  /\ statsLoading = FALSE
  /\ snapshots = <<>>
  /\ snapshotsLoading = TRUE
  /\ detailLoading = TRUE
  /\ requests = <<>>
  /\ alert = NoAlert

NextMutations ==
  \/ fetchPositionsOfTab
  \/ \E ticker \in Tickers : handleAddPosition(ticker)
  \/ \E i \in 1..Len(positions), ticker \in Tickers : handleEditPosition(positions[i], ticker)
  \/ closeModal
  \/ handleSavePosition
  \/ \E i \in 1..Len(positions), confirmed \in BOOLEAN :
       handleDeletePositionOfTab(positions[i], confirmed)
  \/ \E error \in BOOLEAN : fetchSnapshots(error)
  \/ \E end_date \in EndDates : handleAddSnapshot(end_date)
  \/ \E i \in 1..Len(snapshots), end_date \in EndDates : handleEditSnapshot(snapshots[i], end_date)
  \/ handleSaveSnapshot
  \/ handleSaveSnapshotSettles
  \/ \E i \in 1..Len(snapshots), confirmed \in BOOLEAN : handleDeleteSnapshot(snapshots[i], confirmed)
  \/ fetchData
  \/ \E http \in HttpOutcomes : fetchPortfolioStats(http)
  \/ \E end_date \in EndDates : handleEditSnapshotOfDetail(end_date)
  \/ closeEditModal
  \/ handleSaveSnapshotDated
  \/ \E confirmed \in BOOLEAN : handleDeleteSnapshotDated(confirmed)

SpecMutations == InitMutations /\ [][NextMutations]_vars

\* ------------------------------------------------- the in-progress flags
ResetPasswordRoute == [page |-> "/reset-password", id |-> 0]
SettingsRoute == [page |-> "/settings", id |-> 0]

\* What the detail page leaves alone while it fetches prices or dividends.
besideFetchVars ==
  <<dbPositions, dbSnapshots, nextPositionId, nextSnapshotId, route, listPageVars,
    positionsPageVars, snapshot, positionsLoading, detailLoading, portfolioStats, statsLoading,
    editForm, dialogVars, calcVars, exported, accessVars, resetVars, settingsVars,
    fetchDataCalls, statusFilter>>

\* The answers POST /snapshots/{id}/... can give for the page's snapshot.
HttpOutcomesOfSnapshot ==
  IF \E r \in dbSnapshots : r.id = snapshot.id THEN HttpOutcomes ELSE HttpOutcomes \ {"ok"}

\* handleFetchPrices up to its await of fetch(); the button is disabled
\* while isFetchingPrices.
handleFetchPricesStarts ==
  /\ route.page = "/snapshots/[id]"
  /\ ~detailLoading
  /\ ~isFetchingPrices
  /\ snapshot # NoSnapshot
  /\ isFetchingPrices' = TRUE
  /\ UNCHANGED <<isFetchingDividends, dbSnapshotPositions, snapshotPositions, summaryStats,
                 logVars, besideFetchVars>>

\* handleFetchPrices whose catch returns before the flag is cleared
HandleFetchPricesSettlesWithoutFinally ==
  /\ route.page = "/snapshots/[id]"
  /\ isFetchingPrices
  /\ \E http \in HttpOutcomesOfSnapshot, error \in BOOLEAN :
       IF http = "ok"
       THEN LET db == fetchPricesRows(dbSnapshotPositions, snapshot.id)
                data == snapshotPositionsWithStatus(db, snapshot.id)
            IN  /\ dbSnapshotPositions' = db
                /\ requests' = <<Request("POST /snapshots/{id}/fetch-prices", "ok"),
                                 Request("SELECT snapshot_positions_with_status",
                                         StoreOutcome(error))>>
                /\ IF error
                   THEN UNCHANGED <<snapshotPositions, summaryStats>>
                   ELSE /\ snapshotPositions' = data
                        /\ summaryStats' = summaryStatsOf(data)
                /\ alert' = "Prices fetched successfully!"
                /\ isFetchingPrices' = FALSE
       ELSE /\ requests' = <<Request("POST /snapshots/{id}/fetch-prices", http)>>
            /\ alert' = FetchPricesAlert
            /\ UNCHANGED <<dbSnapshotPositions, snapshotPositions, summaryStats,
                           isFetchingPrices>>
  /\ UNCHANGED <<isFetchingDividends, besideFetchVars>>

\* handleFetchPrices from the answer of fetch() to the end of its finally.
handleFetchPricesSettles ==
  /\ route.page = "/snapshots/[id]"
  /\ isFetchingPrices
  /\ \E http \in HttpOutcomesOfSnapshot, error \in BOOLEAN :
       IF http = "ok"
       THEN LET db == fetchPricesRows(dbSnapshotPositions, snapshot.id)
                data == snapshotPositionsWithStatus(db, snapshot.id)
            IN  /\ dbSnapshotPositions' = db
                /\ requests' = <<Request("POST /snapshots/{id}/fetch-prices", "ok"),
                                 Request("SELECT snapshot_positions_with_status",
                                         StoreOutcome(error))>>
                /\ IF error
                   THEN UNCHANGED <<snapshotPositions, summaryStats>>
                   ELSE /\ snapshotPositions' = data
                        /\ summaryStats' = summaryStatsOf(data)
                /\ alert' = "Prices fetched successfully!"
       ELSE /\ requests' = <<Request("POST /snapshots/{id}/fetch-prices", http)>>
            /\ alert' = FetchPricesAlert
            /\ UNCHANGED <<dbSnapshotPositions, snapshotPositions, summaryStats>>
  /\ isFetchingPrices' = FALSE
  /\ UNCHANGED <<isFetchingDividends, besideFetchVars>>

\* handleFetchDividends up to its await of fetch().
handleFetchDividendsStarts ==
  /\ route.page = "/snapshots/[id]"
  /\ ~detailLoading
  /\ ~isFetchingDividends
  /\ snapshot # NoSnapshot
  /\ isFetchingDividends' = TRUE
  /\ UNCHANGED <<isFetchingPrices, dbSnapshotPositions, snapshotPositions, summaryStats,
                 logVars, besideFetchVars>>

\* handleFetchDividends from the answer of fetch() to the end of its finally.
handleFetchDividendsSettles ==
  /\ route.page = "/snapshots/[id]"
  /\ isFetchingDividends
  /\ \E http \in HttpOutcomesOfSnapshot, error \in BOOLEAN :
       IF http = "ok"
       THEN LET db == populateDividendsRows(dbSnapshotPositions, snapshot.id)
                data == snapshotPositionsWithStatus(db, snapshot.id)
            IN  /\ dbSnapshotPositions' = db
                /\ requests' = <<Request("POST /snapshots/{id}/populate-dividends", "ok"),
                                 Request("SELECT snapshot_positions_with_status",
                                         StoreOutcome(error))>>
                /\ IF error
                   THEN UNCHANGED <<snapshotPositions, summaryStats>>
                   ELSE /\ snapshotPositions' = data
                        /\ summaryStats' = summaryStatsOf(data)
                /\ alert' = "Dividends fetched successfully!"
       ELSE /\ requests' = <<Request("POST /snapshots/{id}/populate-dividends", http)>>
            /\ alert' = FetchDividendsAlert
            /\ UNCHANGED <<dbSnapshotPositions, snapshotPositions, summaryStats>>
  /\ isFetchingDividends' = FALSE
  /\ UNCHANGED <<isFetchingPrices, besideFetchVars>>

\* The pages that hold an in-progress flag.
FlagPages == {ResetPasswordRoute, SettingsRoute, SnapshotsRoute, SnapshotRoute(1)}

\* One of them mounts over a store of the positions ps and one snapshot.
InitFlags ==
  /\ CalcIdle /\ DetailInit /\ PageInit /\ ExportInit /\ AccessIdle /\ FormsIdle
  /\ \E ps \in StorePositionSets, r \in FlagPages :
       /\ dbPositions = ps
       /\ dbSnapshots = {[id |-> 1, end_date |-> 1]}
       /\ dbSnapshotPositions = createSnapshotRows(ps, 1)
       /\ nextPositionId = Cardinality(ps) + 1
       /\ nextSnapshotId = 2
       /\ route = r
  /\ portfolioStats = NoStats
  /\ statsLoading = FALSE
  /\ snapshots = <<>>
  /\ snapshotsLoading = TRUE
  /\ detailLoading = TRUE
  /\ requests = <<>>
  /\ alert = NoAlert

\* The steps that end with the external call's answer.
updatePasswordAnswers == \E outcome \in UpdatePasswordOutcomes : updatePasswordSettles(outcome)
upsertAnswers == \E error \in BOOLEAN : upsertSettles(error)

NextFlags ==
  \/ route = ResetPasswordRoute /\ \E value \in Passwords : setPassword(value)
  \/ route = ResetPasswordRoute /\ \E value \in Passwords : setConfirmPassword(value)
  \/ route = ResetPasswordRoute /\ handleSubmitOfResetPassword
  \/ route = ResetPasswordRoute /\ updatePasswordAnswers
  \/ route = SettingsRoute /\ \E error \in BOOLEAN : loadSettings(error)
  \/ route = SettingsRoute /\ \E i \in 1..Len(SettingKeys) :
       \E value \in InputValues(SettingKeys[i]) : handleInputChange(SettingKeys[i], value)
  \/ route = SettingsRoute /\ openConfirmDialog
  \/ route = SettingsRoute /\ handleSaveSettings
  \/ route = SettingsRoute /\ upsertAnswers
  \/ route = SettingsRoute /\ reloadSettings
  \/ \E error \in BOOLEAN : fetchSnapshots(error)
  \/ \E end_date \in EndDates : handleAddSnapshot(end_date)
  \/ \E i \in 1..Len(snapshots), end_date \in EndDates : handleEditSnapshot(snapshots[i], end_date)
  \/ closeModal
  \/ handleSaveSnapshot
  \/ handleSaveSnapshotSettles
  \/ fetchData
  \/ \E http \in HttpOutcomes : fetchPortfolioStats(http)
  \/ handleFetchPricesStarts
  \/ handleFetchPricesSettles
  \/ handleFetchDividendsStarts
  \/ handleFetchDividendsSettles

SpecFlags == InitFlags /\ [][NextFlags]_vars

\* Every external call the handlers await resolves or rejects.
FairFlags ==
  /\ WF_vars(updatePasswordAnswers)
  /\ WF_vars(upsertAnswers)
  /\ WF_vars(handleSaveSnapshotSettles)
  /\ WF_vars(handleFetchPricesSettles)
  /\ WF_vars(handleFetchDividendsSettles)

SpecFlagsFair == SpecFlags /\ FairFlags

\* =================================================================== claims
\* The price a side of the position counts with: the override when it is
\* present and not zero, the fetched price otherwise.
EffectivePrice(override, price) ==
  IF override # Null /\ override # Undefined /\ override # Whole(0)
  THEN override ELSE price

EffectiveStart == EffectivePrice(row.start_price_override, row.start_price)
EffectiveEnd == EffectivePrice(row.end_price_override, row.end_price)

Absent(x) == x = Null \/ x = Undefined
NotANumber(x) == x.k \in {"NaN", "Infinity"}

ReturnColumnRendered == returnCell.text # Pending
DetailCellRendered == detailCell.text # Pending
RowExported == exportCell.formatted # Pending
RowSummarised == rowReturn # Undefined

\* C1: on each side independently the override counts when it is present
\* and not zero and the fetched price otherwise, and the return the
\* positions page computes is the return of the two effective prices alone.
C1_OverridePrecedence ==
  ReturnColumnRendered =>
    returnCell.returnPct = calculateReturn(EffectiveStart, EffectiveEnd, Null, Null)

\* A start override of 110 over a fetched 100, end 120: (120 - 110) / 110 * 100.
C1_Witness ==
  /\ ReturnColumnRendered
  /\ row.start_price = Whole(100)
  /\ row.start_price_override = Whole(110)
  /\ row.end_price = Whole(120)
  /\ row.end_price_override = Whole(0)
  /\ returnCell.returnPct = Num(100, 11)

\* C2: for an effective start price > 0 and a non-null effective end price
\* calculateReturn returns (end - start) / start * 100.
C2_ReturnFormula ==
  (/\ ReturnColumnRendered
   /\ ~Absent(EffectiveStart)
   /\ GreaterThan(EffectiveStart, Whole(0))
   /\ ~Absent(EffectiveEnd)) =>
    returnCell.returnPct =
      Mul(Div(Sub(EffectiveEnd, EffectiveStart), EffectiveStart), Whole(100))

\* C3: an absent effective start or end price gives null, rendered as '-'.
C3_AbsentIsUnavailable ==
  (ReturnColumnRendered /\ (Absent(EffectiveStart) \/ Absent(EffectiveEnd))) =>
    /\ returnCell.returnPct = Null
    /\ returnCell.text = Dash

\* No end price at all, start 100.
C3_Witness ==
  /\ ReturnColumnRendered
  /\ EffectiveStart = Whole(100)
  /\ row.end_price = Null
  /\ row.end_price_override = Null
  /\ returnCell = [returnPct |-> Null, text |-> Dash]

\* C4: an effective start price of 0 gives the unavailable outcome in the
\* positions page and in the three return computations of the snapshot
\* detail page, and none of them ever yields Infinity or NaN.
C4_ZeroStartGuarded ==
  /\ (ReturnColumnRendered /\ EffectiveStart = Whole(0)) =>
       returnCell = [returnPct |-> Null, text |-> Dash]
  /\ (DetailCellRendered /\ row.start_price = Whole(0)) => detailCell.text = Dash
  /\ (RowExported /\ row.start_price = Whole(0)) =>
       exportCell = [ret |-> Whole(0), formatted |-> Dash]
  /\ (RowSummarised /\ row.start_price = Whole(0)) => rowReturn = Whole(0)
  /\ ~NotANumber(returnCell.returnPct)
  /\ ~NotANumber(detailCell.totalReturn)
  /\ ~NotANumber(exportCell.ret)
  /\ ~NotANumber(rowReturn)

\* Start price 0 with an end price of 110, through all four computations.
C4_Witness ==
  /\ row.start_price = Whole(0)
  /\ row.start_price_override = Null
  /\ EffectiveEnd = Whole(110)
  /\ row.end_price = Whole(110)
  /\ returnCell = [returnPct |-> Null, text |-> Dash]
  /\ detailCell.text = Dash
  /\ exportCell.formatted = Dash
  /\ rowReturn = Whole(0)

\* dividends_paid with null and undefined counted as 0.
DividendsOrZero(p) == IF Absent(p.dividends_paid) THEN Whole(0) ELSE p.dividends_paid

\* ((end + d) - start) / start * 100
ReturnWithDividends(p) ==
  Mul(Div(Sub(Add(p.end_price, DividendsOrZero(p)), p.start_price), p.start_price),
      Whole(100))

\* C5: for start_price > 0 and a non-null end_price the table cell, the
\* summary aggregator and the HTML export all compute
\* ((end + d) - start) / start * 100.
C5_ReturnWithDividends ==
  (/\ ~Absent(row.start_price)
   /\ GreaterThan(row.start_price, Whole(0))
   /\ ~Absent(row.end_price)) =>
    /\ DetailCellRendered => detailCell.totalReturn = ReturnWithDividends(row)
    /\ RowExported => exportCell.ret = ReturnWithDividends(row)
    /\ RowSummarised => rowReturn = ReturnWithDividends(row)

\* The return of one snapshot position as the table shows it, 0 where the
\* table shows '-'.
ShownReturnOrZero(p) ==
  LET cell == returnWithDividendsCell(p)
  IN  IF cell.text = Dash THEN Whole(0) ELSE cell.totalReturn

ShownReturns == [i \in 1..Len(snapshotPositions) |-> ShownReturnOrZero(snapshotPositions[i])]

\* C6: averageReturn is the sum of the per-position returns, unavailable
\* ones counting 0, divided by the number of all positions.
C6_AverageOverAllPositions ==
  Len(snapshotPositions) > 0 =>
    summaryStats.averageReturn =
      Div(reduceSum(ShownReturns, Len(snapshotPositions)), Whole(summaryStats.totalPositions))

\* One position returning 10 and one without a start price: average 5.
C6_Witness ==
  /\ ~positionsLoading
  /\ Len(snapshotPositions) = 2
  /\ ShownReturns[1] = Whole(10)
  /\ snapshotPositions[2].start_price = Null
  /\ snapshotPositions[2].end_price = Whole(110)
  /\ summaryStats.averageReturn = Whole(5)

\* C7: winners counts the strictly positive returns, losers the strictly
\* negative ones; the rest are the zero and unavailable returns.
C7_WinnersLosers ==
  LET n == Len(snapshotPositions)
      positive == {i \in 1..n : GreaterThan(ShownReturns[i], Whole(0))}
      negative == {i \in 1..n : LessThan(ShownReturns[i], Whole(0))}
      zero == {i \in 1..n : ShownReturns[i] = Whole(0)}
  IN  /\ summaryStats.winners = Cardinality(positive)
      /\ summaryStats.losers = Cardinality(negative)
      /\ summaryStats.winners + summaryStats.losers <= summaryStats.totalPositions
      /\ summaryStats.totalPositions - summaryStats.winners - summaryStats.losers
           = Cardinality(zero)

\* A position returning exactly 0 (95 + 5 against 100) next to a winner.
C7_Witness ==
  /\ ~positionsLoading
  /\ Len(snapshotPositions) = 2
  /\ snapshotPositions[1] =
       [start_price |-> Whole(100), end_price |-> Whole(95), dividends_paid |-> Whole(5)]
  /\ ShownReturns[2] = Whole(10)
  /\ summaryStats.winners = 1
  /\ summaryStats.losers = 0
  /\ summaryStats.totalPositions = 2

\* C8: totalDividends is the sum of dividends_paid, null and undefined
\* counting 0, and totalPositions the number of positions.
C8_TotalDividends ==
  LET n == Len(snapshotPositions)
  IN  /\ summaryStats.totalDividends =
           reduceSum([i \in 1..n |-> DividendsOrZero(snapshotPositions[i])], n)
      /\ summaryStats.totalPositions = n

\* dividends_paid undefined in one row and 5 in the other: 5 in total.
C8_Witness ==
  /\ ~positionsLoading
  /\ Len(snapshotPositions) = 2
  /\ snapshotPositions[1].dividends_paid = Undefined
  /\ snapshotPositions[2].dividends_paid = Whole(5)
  /\ summaryStats.totalDividends = Whole(5)

\* C9: for an empty list the aggregator returns 0 in every field.
C9_EmptyList ==
  snapshotPositions = <<>> =>
    summaryStats = [totalPositions |-> 0, winners |-> 0, losers |-> 0,
                    totalDividends |-> Whole(0), averageReturn |-> Whole(0)]

\* The view returned no row for the snapshot.
C9_Witness ==
  /\ ~positionsLoading
  /\ snapshotPositions = <<>>
  /\ summaryStats.averageReturn = Whole(0)
  /\ summaryStats.totalPositions = 0

\* C10: 'all' shows the whole list, 'open' exactly the rows with status
\* Open and 'closed' exactly those with status Closed, in the list's order.
C10_StatusFilter ==
  filteredPositions =
    CASE statusFilter = "all" -> positions
      [] statusFilter = "open" -> SelectSeq(positions, LAMBDA p : p.status = "Open")
      [] statusFilter = "closed" -> SelectSeq(positions, LAMBDA p : p.status = "Closed")

\* Open, open, Open under the filter 'open': rows 1 and 3 in that order.
C10_Witness ==
  /\ ~loading
  /\ statusFilter = "open"
  /\ Len(positions) = 3
  /\ positions[1].status = "Open"
  /\ positions[2].status = "open"
  /\ positions[3].status = "Open"
  /\ filteredPositions = <<positions[1], positions[3]>>

\* C11: filtering the filtered list again by the same filter changes nothing.
C11_FilterIdempotent ==
  filteredPositionsOf(filteredPositions, statusFilter) = filteredPositions

\* Open, Closed, Open under 'open': two rows are kept and one is dropped.
C11_Witness ==
  /\ ~loading
  /\ statusFilter = "open"
  /\ Len(positions) = 3
  /\ positions[1].status = "Open"
  /\ positions[2].status = "Closed"
  /\ positions[3].status = "Open"
  /\ Len(filteredPositions) = 2

\* The band of a return r: below 0; from 0 to below 15; from 15 to below
\* 30; from 30 to below 50; from 50 on.
Bands ==
  <<[name |-> "negative", from |-> NegInfinity, below |-> Whole(0)],
    [name |-> "low-positive", from |-> Whole(0), below |-> Whole(15)],
    [name |-> "positive", from |-> Whole(15), below |-> Whole(30)],
    [name |-> "more-positive", from |-> Whole(30), below |-> Whole(50)],
    [name |-> "very-positive", from |-> Whole(50), below |-> PosInfinity]>>

BandsOf(r) ==
  {Bands[i].name : i \in {j \in 1..Len(Bands) :
                            GreaterOrEqual(r, Bands[j].from) /\ LessThan(r, Bands[j].below)}}

\* C12: in the exported document the class of every row is the one band
\* its return lies in, each band holding its lower limit and not its upper.
C12_ReturnBands ==
  exported.written =>
    LET open == openPositionsOf(snapshotPositions)
        closed == closedPositionsOf(snapshotPositions)
    IN  /\ Len(exported.open) = Len(open)
        /\ Len(exported.closed) = Len(closed)
        /\ \A i \in 1..Len(open) :
             BandsOf(exportRow(open[i]).ret) = {exported.open[i].returnClass}
        /\ \A i \in 1..Len(closed) :
             BandsOf(exportRow(closed[i]).ret) = {exported.closed[i].returnClass}

\* Start 150, end 180, no dividends: +20.0%, class positive.
C12_Witness ==
  /\ exported.written
  /\ Len(snapshotPositions) = 1
  /\ snapshotPositions[1].start_price = Whole(150)
  /\ snapshotPositions[1].end_price = Whole(180)
  /\ snapshotPositions[1].dividends_paid = Null
  /\ snapshotPositions[1].position_status = "Open"
  /\ exported.open[1].returnClass = "positive"
  /\ exported.open[1].formatted = [dash |-> FALSE, plus |-> TRUE,
                                   fixed |-> [k |-> "num", neg |-> FALSE, units |-> 200]]

\* A handleDeletePosition of the position whose first request, the delete
\* on snapshot_positions, the store carried out.
DeletesPosition(position) ==
  /\ handleDeletePosition(position, TRUE)
  /\ requests' # <<>>
  /\ requests'[1] = Request("DELETE snapshot_positions", "ok")

\* C14: handleDeletePosition removes every snapshot_positions row of the
\* position's ticker, whatever its snapshot and whatever position it was
\* captured from, and no row of another ticker.
C14_CascadeByTicker ==
  [][\A i \in 1..Len(positions) :
       DeletesPosition(positions[i]) =>
         /\ dbSnapshotPositions' \subseteq dbSnapshotPositions
         /\ \A r \in dbSnapshotPositions :
              r \in dbSnapshotPositions' <=> r.ticker # positions[i].ticker]_vars

\* Positions 1 (AAPL) and 2 (MSFT) were captured in snapshots 1 and 2; after
\* position 1 is deleted the MSFT rows of both snapshots are all that is left.
C14_Witness ==
  /\ requests = <<Request("DELETE snapshot_positions", "ok"), Request("DELETE positions", "ok")>>
  /\ dbSnapshots = {1, 2}
  /\ {p.id : p \in dbPositions} = {2}
  /\ {r.id : r \in dbSnapshotPositions} = {12, 22}
  /\ \A r \in dbSnapshotPositions : r.ticker = "MSFT"

\* A step that is the price fetch or the dividend population of snapshot id.
Backfills(id) ==
  \/ SnapshotBuilderFetchPrices(id)
  \/ SnapshotBuilderPopulateDividends(id)

\* C15, as stated: a snapshot_positions row whose snapshot exists is changed
\* or removed only by the price fetch or the dividend population of its
\* snapshot.
C15_FrozenRecords ==
  [][\A r \in dbSnapshotPositions :
       r.snapshot_id \in dbSnapshots' =>
         \/ r \in dbSnapshotPositions'
         \/ Backfills(r.snapshot_id)]_vars

\* C15, amended: ... or by handleDeletePosition of a position of the row's
\* ticker.
C15_FrozenButForPositionDelete ==
  [][\A r \in dbSnapshotPositions :
       r.snapshot_id \in dbSnapshots' =>
         \/ r \in dbSnapshotPositions'
         \/ Backfills(r.snapshot_id)
         \/ \E i \in 1..Len(positions) :
              /\ positions[i].ticker = r.ticker
              /\ DeletesPosition(positions[i])]_vars

\* After a position was added, renamed and deleted, a row of snapshot 1
\* still holds the price and the dividends the service gave it.
C15_Witness ==
  /\ requests = <<Request("DELETE snapshot_positions", "ok"), Request("DELETE positions", "ok")>>
  /\ 1 \in dbSnapshots
  /\ \E r \in dbSnapshotPositions :
       /\ r.snapshot_id = 1
       /\ r.end_price = Whole(110)
       /\ r.dividends_paid = Whole(5)
       /\ \A p \in dbPositions : p.ticker # r.ticker

\* A step of handleSavePosition, in add or in edit mode.
SavesPosition ==
  \/ \E ticker \in Tickers : handleSavePositionAdd(ticker)
  \/ \E i \in 1..Len(positions), ticker \in Tickers :
       handleSavePositionEdit(positions[i], ticker)

\* C16: handleSavePosition requests writes of positions only, and leaves
\* every snapshot_positions row as it was.
C16_SaveWritesPositionsOnly ==
  [][SavesPosition =>
       /\ dbSnapshotPositions' = dbSnapshotPositions
       /\ dbSnapshots' = dbSnapshots
       /\ \A k \in 1..Len(requests') :
            requests'[k].to \in {"INSERT positions", "UPDATE positions"}]_vars

\* Position 1 was captured as AAPL in snapshot 1 and renamed to MSFT
\* afterwards: the row still says AAPL.
C16_Witness ==
  /\ requests = <<Request("UPDATE positions", "ok")>>
  /\ \E p \in dbPositions : p.id = 1 /\ p.ticker = "MSFT"
  /\ \E r \in dbSnapshotPositions :
       /\ r.id = 11
       /\ r.ticker = "AAPL"
       /\ r.start_price = Whole(100)
       /\ r.end_price = Whole(110)
       /\ r.dividends_paid = Whole(5)

\* C13: a snapshot delete requests the removal of the snapshot's
\* snapshot_positions rows first and the removal of the snapshots row only
\* after it, and a delete the store carried out leaves no row of a snapshot
\* that is gone.
C13_RowsRemovedBeforeSnapshot ==
  /\ \A k \in 1..Len(requests) :
       requests[k].to = "DELETE snapshots" =>
         /\ k > 1
         /\ requests[k - 1] = Request("DELETE snapshot_positions", "ok")
  /\ \A r \in dbSnapshotPositions : r.snapshot_id \in dbSnapshots

\* The texts that name the service (the FastAPI server) and its port (4021).
NamesServiceAndPort(text) ==
  text \in {"Error fetching prices. Please check if the FastAPI server is running on port 4021.",
            "Error fetching dividends. Please check if the FastAPI server is running on port 4021."}

SnapshotBuilderCalls ==
  {"POST /snapshots/create", "POST /snapshots/{id}/fetch-prices",
   "POST /snapshots/{id}/populate-dividends"}

\* C18: after a handler whose snapshot builder call failed or came back
\* with a status that is not ok, the alert shown names the service and its
\* port.
C18_FailureNamesServiceAndPort ==
  \A k \in 1..Len(requests) :
    (requests[k].to \in SnapshotBuilderCalls /\ requests[k].outcome \in {"status", "network"})
      => NamesServiceAndPort(alert)

\* A step of fetchData for an id the store holds no snapshot of.
FetchesMissingSnapshot ==
  /\ StoreFetchData
  /\ route.id \notin dbSnapshots

StatsFail == fetchPortfolioStats("status") \/ fetchPortfolioStats("network")

\* C20: fetchData clears the loading flags while the stats request is
\* still out, and a failing stats request raises no alert, leaves snapshot,
\* positions and route as they are and sets statsLoading to false.
C20_StatsBestEffort ==
  [][/\ (StoreFetchData /\ statsLoading') => (~detailLoading' /\ ~positionsLoading')
     /\ StatsFail =>
          /\ alert' = alert
          /\ snapshot' = snapshot
          /\ snapshotPositions' = snapshotPositions
          /\ summaryStats' = summaryStatsOf(snapshotPositions)
          /\ route' = route
          /\ portfolioStats' = portfolioStats
          /\ ~detailLoading' /\ ~positionsLoading'
          /\ ~statsLoading']_vars

\* The stats request of snapshot 1 has ended without statistics: nothing
\* is shown for it and the page is as it was loaded.
C20_Witness ==
  /\ route = SnapshotRoute(1)
  /\ snapshot = [id |-> 1]
  /\ Len(snapshotPositions) = 2
  /\ ~statsLoading
  /\ portfolioStats = NoStats
  /\ ~detailLoading
  /\ alert = NoAlert
  /\ requests = <<Request("SELECT snapshots", "ok"),
                  Request("SELECT snapshot_positions_with_status", "ok")>>

\* The database URL or the API key is absent or holds its placeholder.
DemoEnvironment ==
  \/ env.url \in {Unset, UrlPlaceholder}
  \/ env.key \in {Unset, KeyPlaceholder}

\* C17: with the URL or the key absent or a placeholder, the client is the
\* mock, and the ProtectedRoute of a page with allowDemo authorizes the page
\* and sends it nowhere (at /login the mock lets nobody in).
C17_DemoMode ==
  [][DemoEnvironment =>
       /\ supabaseClient(env) = "mock"
       /\ (ProtectedRouteEffect /\ allowDemo) =>
            /\ isAuthorized'
            /\ pathname' = pathname]_vars

\* The password handleSubmit would pass on fails one of its two checks.
FailsPasswordChecks == password # confirmPassword \/ Len(password) < MinPasswordLength

\* C21: handleSubmit of the reset-password page hands a password to
\* updatePassword only when it equals the confirmation and has at least 6
\* characters; when a check fails it sets the inline error, leaves updating
\* cleared and issues no request.
C21_ChecksBeforeUpdate ==
  [][handleSubmitOfResetPassword =>
       IF FailsPasswordChecks
         THEN resetError' # "" /\ updating' = FALSE /\ updateUser' = NoRequest
         ELSE updateUser' = password /\ Len(updateUser') >= MinPasswordLength]_vars

\* handleSubmit has refused a matching but short password.
C21_Witness ==
  /\ password = "abc" /\ confirmPassword = "abc"
  /\ resetError = "Password must be at least 6 characters long"
  /\ ~updating /\ updateUser = NoRequest

\* A fetchData call started for another id than the route's now has its
\* answer arrive.
StaleResponseArrives ==
  \E call \in fetchDataCalls :
    /\ call.id # route.id
    /\ \/ fetchDataSnapshotSettles(call, FALSE)
       \/ fetchDataPositionsSettle(call, FALSE)

\* C22: when the id of the route has changed while a fetchData call was in
\* flight, the late answer of that call leaves the snapshot, the edit form
\* and the positions of the page as they are.
C22_StaleResponsesIgnored ==
  [][StaleResponseArrives => UNCHANGED <<snapshot, editForm, snapshotPositions>>]_vars

\* The two requests of a trigger handler that went through: the POST and
\* the re-read of the snapshot's rows.
TriggerWentThrough(log) ==
  /\ Len(log) = 2
  /\ log[1].outcome = "ok"
  /\ log[2] = Request("SELECT snapshot_positions_with_status", "ok")

\* C23: handleFetchPrices and handleFetchDividends take the positions they
\* show from the store only: after a POST that went through and a re-read
\* without error the local positions are exactly the rows the store holds
\* for the current snapshot, and after a failed POST or a failed re-read
\* they are what they were.
C23_TriggersReread ==
  [][(handleFetchPrices \/ handleFetchDividends) =>
       IF TriggerWentThrough(requests')
         THEN snapshotPositions' = snapshotPositionsWithStatus(dbSnapshotPositions', snapshot.id)
         ELSE snapshotPositions' = snapshotPositions]_vars

\* handleFetchPrices went through: the page shows the end prices the
\* service wrote to the store.
C23_Witness ==
  /\ requests = <<Request("POST /snapshots/{id}/fetch-prices", "ok"),
                  Request("SELECT snapshot_positions_with_status", "ok")>>
  /\ Len(snapshotPositions) = 2
  /\ \A i \in 1..Len(snapshotPositions) : snapshotPositions[i].end_price = Whole(110)
  /\ snapshotPositions = snapshotPositionsWithStatus(dbSnapshotPositions, snapshot.id)

\* C26: a confirmed handleDeletePosition either removes the positions row,
\* every snapshot_positions row of its ticker and the entry of the local
\* list, or leaves the two tables and the local list as they were; and it
\* issues the delete on positions only after the delete on
\* snapshot_positions went through.
C26_DeleteAllOrNothing ==
  [][\A i \in 1..Len(positions) :
       handleDeletePosition(positions[i], TRUE) =>
         /\ \/ /\ dbPositions' = {r \in dbPositions : r.id # positions[i].id}
               /\ dbSnapshotPositions' =
                    deleteSnapshotPositionsEqTicker(dbSnapshotPositions, positions[i])
               /\ positions' = SelectSeq(positions, LAMBDA p : p.id # positions[i].id)
            \/ UNCHANGED <<dbPositions, dbSnapshotPositions, positions>>
         /\ \A k \in 1..Len(requests') :
              requests'[k].to = "DELETE positions" =>
                k > 1 /\ requests'[k - 1] = Request("DELETE snapshot_positions", "ok")]_vars

\* ProtectedRoute renders its children: loading is false and isAuthorized
\* is true on a page it wraps.
RendersChildren == pathname \in ProtectedPages /\ ~authLoading /\ isAuthorized

\* The authorization predicate: demo mode allowed and active, or a user
\* after loading whose profile has the required role (or 'admin') when a
\* role is required.
AuthorizationPredicate ==
  \/ allowDemo /\ isDemoMode(env)
  \/ /\ ~authLoading
     /\ authUser # NoUser
     /\ requiredRole # NoRole => (profile # NoProfile /\ hasRequiredRole(profile, requiredRole))

\* C25: whenever ProtectedRoute renders its children, the authorization
\* predicate holds.
C25_ChildrenImplyAuthorized == RendersChildren => AuthorizationPredicate

\* C27: in the AuthProvider a null user has a null profile.
C27_NoProfileWithoutUser == authUser = NoUser => profile = NoProfile

\* The settings table holds exactly what a complete save of s wrote.
SavedAs(s) == settingsRows = {settingsArray(s)[i] : i \in 1..Len(SettingKeys)}

\* C28: when the settings table holds what handleSaveSettings wrote for a
\* SettingsData value s, loading the page yields settings equal to s, every
\* field with its type; an unchecked show_percentage_returns is loaded
\* unchecked.
C28_SettingsRoundTrip ==
  [][\A s \in SettingsData :
       (SavedAs(s) /\ loadSettings(FALSE)) =>
         /\ settings' = s
         /\ checked(settings'.show_percentage_returns) = checked(s.show_percentage_returns)]_vars

\* C30: on the snapshot list page the local list is in descending order of
\* end_date, so that snapshots[0] has the greatest end_date of the list.
C30_ListOrderedByEndDate ==
  route = SnapshotsRoute =>
    /\ OrderedByEndDate(snapshots)
    /\ \A i \in 1..Len(snapshots) : snapshots[1].end_date >= snapshots[i].end_date

\* The handlers of the three pages that write to the store.
SaveOrDeleteHandler ==
  \/ handleSavePosition
  \/ \E i \in 1..Len(positions), confirmed \in BOOLEAN :
       handleDeletePositionOfTab(positions[i], confirmed)
  \/ handleSaveSnapshotSettles
  \/ \E i \in 1..Len(snapshots), confirmed \in BOOLEAN : handleDeleteSnapshot(snapshots[i], confirmed)
  \/ handleSaveSnapshotDated
  \/ \E confirmed \in BOOLEAN : handleDeleteSnapshotDated(confirmed)

StoreMutations ==
  {"INSERT positions", "UPDATE positions", "DELETE positions", "DELETE snapshot_positions",
   "UPDATE snapshots", "DELETE snapshots"}

\* The store rejected a mutation of the log.
StoreRejected(log) ==
  \E k \in 1..Len(log) : log[k].to \in StoreMutations /\ log[k].outcome = "error"

\* The store, or the snapshot builder in front of it, confirmed one.
StoreConfirmed(log) ==
  \E k \in 1..Len(log) :
    log[k].to \in StoreMutations \cup {"POST /snapshots/create"} /\ log[k].outcome = "ok"

\* C24: when the store rejects the insert, update or delete of a save or
\* delete handler, the step leaves the local positions, the local snapshots
\* and the snapshot of the detail page as they were, and leaves the dialog
\* open with its form; the local rows change only in a step whose mutation
\* the store confirmed.
C24_StoreErrorLeavesView ==
  [][SaveOrDeleteHandler =>
       /\ StoreRejected(requests') =>
            UNCHANGED <<positions, filteredPositions, snapshots, snapshot, isModalOpen,
                        isEditModalOpen, editForm>>
       /\ (positions' # positions \/ snapshots' # snapshots \/ snapshot' # snapshot) =>
            StoreConfirmed(requests')]_vars

\* C29: every in-progress flag is cleared once the awaited call has
\* answered. The step that takes the answer of updateUser, of the last
\* upsert (or of the first one that fails), of handleSaveSnapshot's request,
\* of fetch-prices or of populate-dividends leaves updating, saving,
\* isSaving, isFetchingPrices or isFetchingDividends false, whatever the
\* answer; a handleSubmit that returns early leaves updating false; and,
\* the calls answering, a flag that is true becomes false.
C29_FlagsCleared ==
  /\ [][/\ updatePasswordAnswers => ~updating'
        /\ (handleSubmitOfResetPassword /\ updateUser' = NoRequest) => ~updating'
        /\ (upsertAnswers /\ upserts' = <<>>) => ~saving'
        /\ handleSaveSnapshotSettles => ~isSaving'
        /\ handleFetchPricesSettles => ~isFetchingPrices'
        /\ handleFetchDividendsSettles => ~isFetchingDividends']_vars
  /\ updating ~> ~updating
  /\ saving ~> ~saving
  /\ isSaving ~> ~isSaving
  /\ isFetchingPrices ~> ~isFetchingPrices
  /\ isFetchingDividends ~> ~isFetchingDividends

\* fetch-prices was rejected by the network while populate-dividends is
\* still awaited: isFetchingPrices is false again.
C29_Witness ==
  /\ requests = <<Request("POST /snapshots/{id}/fetch-prices", "network")>>
  /\ alert = FetchPricesAlert
  /\ ~isFetchingPrices
  /\ isFetchingDividends

====
